---- MODULE Spec2Model ----
(***************************************************************************)
(* A model of the chat server (presence registry, private messages, read   *)
(* receipts, chunked file relay) and of the client (chunk receiver,        *)
(* pending-event queues, reconnection supervisor) of nhatanh120604/chatroom.*)
(*                                                                         *)
(* Strings are modelled as sequences of characters so that strip() and     *)
(* lower() are computed.  The character "L" stands for a block of          *)
(* MaxUsernameLen lower-case letters, which makes the length limit         *)
(* reachable with short sequences.                                         *)
(***************************************************************************)
EXTENDS Integers, Sequences, FiniteSets, TLC

VARIABLES
    conn,              \* transport: sid -> "new" | "live" | "gone"
    clients,           \* UserService.clients: dict sid -> username
    session_keys,      \* UserService.session_keys: the sids holding a key
    private_messages,  \* MessageService.private_messages: dict id -> record
    message_counter,   \* MessageService.message_counter
    task,              \* the handler invocation each server worker is running
    allocated,         \* history: the ids handed out, in allocation order
    readNotices,       \* history: id -> number of private_message_read emits
    seenSkips,         \* history: the ids skipped by a read because already seen
    out,               \* history: the events the last handler step emitted, in order
    public_history,    \* HistoryService.public_history
    accepted,          \* history: every public message accepted so far, in order
    broadcasts,        \* history: the public messages emitted to every connection, in order
    emit_locks,        \* history: the locks that were held by a handler while it emitted
    leg,               \* the leg under way: its destination and the file's chunk count
    arrivals,          \* history: the chunk payloads delivered, in arrival order
    active_transfers,  \* FileTransferService.active_transfers: dict id -> record
    file_lock,         \* FileTransferService.lock: "free" or the worker holding it
    received_chunks,   \* client FileHandler._received_chunks: dict id -> dict
    client_transfers,  \* client FileHandler._active_transfers: dict id -> metadata
    threads,           \* client reassembly threads, in the order they were started
    completions,       \* history: the transfers reported complete
    failures,          \* history: the number of transfers that failed
    relayed,           \* history: the transfers streamed by the relay, and to whom
    link,              \* the client's transport: "down" | "up"
    epoch,             \* history: the number of connections established so far
    connected,         \* ConnectionManager._connected
    connecting,        \* ConnectionManager._connecting
    should_reconnect,  \* ConnectionManager._should_reconnect
    user_requested_disconnect, \* ConnectionManager._user_requested_disconnect
    reconnect_attempts, \* ConnectionManager._reconnect_attempts
    rec,               \* the reconnection thread: "none" | "loop" | "connect" | "sleep"
    recLog,            \* history: the attempts ("a") and waits of the running loop
    connector,         \* whether a connect_async thread is inside sio.connect
    session_aes_key,   \* SessionManager._session_aes_key: 0 (None) or its generation
    session_ready,     \* SessionManager._session_ready
    ackPending,        \* a session_key_ok is on its way on this connection
    ackEpoch,          \* history: the last connection on which session_key_ok arrived
    desired_username,  \* ChatClient._desired_username
    current_username,  \* ChatClient._username
    last_error,        \* history: the message of the last errorReceived signal
    disc,              \* the disconnect handlers under way: connection -> position
    loops,             \* the reconnection threads started: thread -> position
    reconnect_thread,  \* ConnectionManager._reconnect_thread: a thread, or 0 for None
    post_key_queue,    \* ChatClient._post_key_queue (client/client.py)
    released,          \* history: the calls emitted by session_key_ok from that queue
    pending_events,    \* ChatClient._pending_events
    ui,                \* the UI thread inside _emit_when_connected
    sock,              \* the socket thread inside _flush_pending_events
    nsub,              \* history: the number of calls the UI has made
    queued,            \* history: the calls that were appended to the pending queue
    wire,              \* history: the events transmitted, in order
    connection_state,  \* ConnectionManager._connection_state
    signals            \* history: the signals emitted since the reconnection loop was started

serverVars == <<conn, clients, session_keys, private_messages, message_counter,
                task, allocated, readNotices, seenSkips, out, public_history,
                accepted, broadcasts, emit_locks>>

xferVars == <<leg, arrivals, active_transfers, file_lock, received_chunks,
              client_transfers, threads, completions, failures, relayed>>

superVars == <<disc, loops, reconnect_thread>>

gateVars == <<post_key_queue, released>>

clientVars == <<link, epoch, connected, connecting, should_reconnect,
                user_requested_disconnect, reconnect_attempts, rec, recLog, connector,
                session_aes_key, session_ready, ackPending, ackEpoch, desired_username,
                pending_events, ui, sock, nsub, queued, wire,
               connection_state, signals, current_username, last_error,
                superVars, gateVars>>

vars == <<serverVars, xferVars, clientVars>>

----------------------------------------------------------------------------
(* Universes and bounds *)

Sids == {"s1", "s2", "s3"}
Workers == {"w1", "w2"}
MaxMessages == 2
MaxUsernameLen == 50


(* The strings the clients send as names: case variants of one name, a    *)
(* padded variant, another name, blank and empty strings and a name of 51  *)
(* characters.                                                             *)
Strs == { <<"B", "o", "b">>, <<"b", "o", "b">>, <<" ", "b", "o", "b", " ">>,
          <<"A", "l">>, <<" ">>, <<>>, <<"L", "a">> }

----------------------------------------------------------------------------
(* Python string primitives *)

IsSpace(c) == c = " "

RECURSIVE LStrip(_)
LStrip(s) == IF s /= <<>> /\ IsSpace(Head(s)) THEN LStrip(Tail(s)) ELSE s

RECURSIVE RStrip(_)
RStrip(s) ==
    IF s /= <<>> /\ IsSpace(s[Len(s)]) THEN RStrip(SubSeq(s, 1, Len(s) - 1)) ELSE s

Strip(s) == RStrip(LStrip(s))

LowerChar(c) ==
    IF c = "A" THEN "a" ELSE IF c = "B" THEN "b" ELSE IF c = "U" THEN "u"
    ELSE IF c = "I" THEN "i" ELSE IF c = "S" THEN "s" ELSE c

Lower(s) == [i \in 1..Len(s) |-> LowerChar(s[i])]

RECURSIVE PyLen(_)
PyLen(s) ==
    IF s = <<>> THEN 0
    ELSE (IF Head(s) = "L" THEN MaxUsernameLen ELSE 1) + PyLen(Tail(s))

(* sub in s *)
Contains(s, sub) ==
    \E i \in 1..(Len(s) - Len(sub) + 1) : SubSeq(s, i, i + Len(sub) - 1) = sub

(* A payload field that may hold a string or something else (None, a number). *)
StrVal(s) == [isStr |-> TRUE, s |-> s]
NotAStr == [isStr |-> FALSE, s |-> <<>>]
RawStrs == {NotAStr} \cup {StrVal(s) : s \in Strs}

Unknown == <<"Unknown">>

----------------------------------------------------------------------------
(* utils/validators.py *)

validate_usernameNoLimit(username) ==
    IF ~username.isStr \/ username.s = <<>>
    THEN [ok |-> FALSE, name |-> <<>>, msg |-> "A valid username is required."]
    ELSE IF Strip(username.s) = <<>>
    THEN [ok |-> FALSE, name |-> <<>>, msg |-> "Username cannot be empty."]
    ELSE [ok |-> TRUE, name |-> Strip(username.s), msg |-> ""]

validate_username(username) ==
    IF ~username.isStr \/ username.s = <<>>
    THEN [ok |-> FALSE, name |-> <<>>, msg |-> "A valid username is required."]
    ELSE IF Strip(username.s) = <<>>
    THEN [ok |-> FALSE, name |-> <<>>, msg |-> "Username cannot be empty."]
    ELSE IF PyLen(Strip(username.s)) > MaxUsernameLen
    THEN [ok |-> FALSE, name |-> <<>>, msg |-> "Username too long (max 50 characters)."]
    ELSE [ok |-> TRUE, name |-> Strip(username.s), msg |-> ""]

----------------------------------------------------------------------------
(* services/user_service.py *)

NameTakenMutant(username) == \E s \in DOMAIN clients : clients[s] = username

NameTaken(username) == \E s \in DOMAIN clients : Lower(clients[s]) = Lower(username)

DictPut(d, k, v) == [x \in DOMAIN d \cup {k} |-> IF x = k THEN v ELSE d[x]]

DictPopMutant(d, k) == d

DictPop(d, k) == [x \in DOMAIN d \ {k} |-> d[x]]

get_username(sid) == IF sid \in DOMAIN clients THEN clients[sid] ELSE Unknown

find_user_sidAnyCase(username) ==
    {s \in DOMAIN clients : Lower(clients[s]) = Lower(username)}

find_user_sid(username) == {s \in DOMAIN clients : clients[s] = username}

(* list(self.clients.values()), as the set of names it holds. *)
UsersList(d) == {d[s] : s \in DOMAIN d}

(* sio.emit(event, payload, to=...): "all" stands for an emit without      *)
(* recipient, which goes to every connection.                              *)
EmitText(event, to, msg, users, id, text) ==
    [event |-> event, to |-> to, msg |-> msg, users |-> users, id |-> id, text |-> text]

Emit(event, to, msg, users, id) == EmitText(event, to, msg, users, id, <<>>)

(* The chat_history event a connection gets when there is history. *)
ChatHistory(sid) ==
    IF public_history = <<>> THEN <<>>
    ELSE <<Emit("chat_history", sid, "", {}, Len(public_history))>>

Error(sid, msg) == Emit("error", sid, msg, {}, 0)

(* A handler step that emits nothing. *)
NoOut == <<>>

----------------------------------------------------------------------------
(* Worker tasks *)

UiIdle == [pc |-> "idle", event |-> "none", n |-> 0]
SockIdle == [pc |-> "idle", i |-> 0, desired |-> ""]

(* The client as constructed: offline, without key, identity or queue. *)
ClientOffline ==
    /\ link = "down"
    /\ epoch = 0
    /\ connected = FALSE
    /\ connecting = FALSE
    /\ should_reconnect = TRUE
    /\ user_requested_disconnect = FALSE
    /\ reconnect_attempts = 0
    /\ rec = "none"
    /\ recLog = <<>>
    /\ connector = FALSE
    /\ session_aes_key = 0
    /\ session_ready = FALSE
    /\ ackPending = FALSE
    /\ ackEpoch = 0
    /\ desired_username = ""
    /\ pending_events = <<>>
    /\ ui = UiIdle
    /\ sock = SockIdle
    /\ nsub = 0
    /\ queued = {}
    /\ wire = <<>>
    /\ connection_state = "offline"
    /\ signals = <<>>
    /\ current_username = ""
    /\ last_error = <<>>
    /\ disc = <<>>
    /\ loops = <<>>
    /\ reconnect_thread = 0
    /\ post_key_queue = <<>>
    /\ released = <<>>

(* No transfer is under way on either leg. *)
NoTransfers ==
    /\ leg = [to |-> "relay", total_chunks |-> 1, is_private |-> FALSE, recipient |-> <<>>]
    /\ arrivals = <<>>
    /\ active_transfers = <<>>
    /\ file_lock = "free"
    /\ received_chunks = <<>>
    /\ client_transfers = <<>>
    /\ threads = <<>>
    /\ completions = <<>>
    /\ failures = 0
    /\ relayed = <<>>

Idle == [op |-> "idle", sid |-> "s1", pc |-> "none", name |-> <<>>,
         rsid |-> "s1", mid |-> 0, acks |-> <<>>, tid |-> "t1"]

Init ==
    /\ conn = [s \in Sids |-> "new"]
    /\ clients = <<>>
    /\ session_keys = {}
    /\ private_messages = <<>>
    /\ message_counter = 0
    /\ task = [w \in Workers |-> Idle]
    /\ allocated = <<>>
    /\ readNotices = [i \in {} |-> 0]
    /\ seenSkips = {}
    /\ out = NoOut
    /\ public_history = <<>>
    /\ accepted = <<>>
    /\ broadcasts = <<>>
    /\ emit_locks = {}
    /\ NoTransfers
    /\ ClientOffline

(* The transport accepts a new connection and assigns it a sid. *)
Connect(sid) ==
    /\ conn[sid] = "new"
    /\ conn' = [conn EXCEPT ![sid] = "live"]
    /\ out' = ChatHistory(sid)
    /\ UNCHANGED <<xferVars, clientVars>>
    /\ UNCHANGED <<clients, session_keys, private_messages, message_counter,
                   task, allocated, readNotices, seenSkips>>
    /\ UNCHANGED <<public_history, accepted, broadcasts, emit_locks>>

(* register, up to the lock: the payload is read and validated. *)
RegisterRecv(w, sid, raw) ==
    /\ task[w].op = "idle"
    /\ conn[sid] = "live"
    /\ LET v == validate_username(raw)
       IN  /\ task' = [task EXCEPT ![w] =
                    IF v.ok THEN [Idle EXCEPT !.op = "register", !.sid = sid,
                                              !.pc = "lock", !.name = v.name]
                    ELSE Idle]
           /\ out' = IF v.ok THEN <<>> ELSE <<Error(sid, v.msg)>>
    /\ UNCHANGED <<xferVars, clientVars>>
    /\ UNCHANGED <<conn, clients, session_keys, private_messages, message_counter,
                   allocated, readNotices, seenSkips>>
    /\ UNCHANGED <<public_history, accepted, broadcasts, emit_locks>>

(* register, the locked section: duplicate check and insert. *)
RegisterLocked(w) ==
    /\ task[w].op = "register"
    /\ task[w].pc = "lock"
    /\ clients' = IF NameTaken(task[w].name) THEN clients
                  ELSE DictPut(clients, task[w].sid, task[w].name)
    /\ out' = IF NameTaken(task[w].name)
              THEN <<Error(task[w].sid, "Username is already taken.")>>
              ELSE <<Emit("update_user_list", "all", "", UsersList(clients'), 0)>>
                   \o ChatHistory(task[w].sid)
    /\ task' = [task EXCEPT ![w] = Idle]
    /\ UNCHANGED <<xferVars, clientVars>>
    /\ UNCHANGED <<conn, session_keys, private_messages, message_counter,
                   allocated, readNotices, seenSkips>>
    /\ UNCHANGED <<public_history, accepted, broadcasts, emit_locks>>

(* The transport drops the connection and the disconnect handler runs. *)
Disconnect(sid) ==
    /\ conn[sid] = "live"
    /\ conn' = [conn EXCEPT ![sid] = "gone"]
    /\ clients' = DictPop(clients, sid)
    /\ session_keys' = session_keys \ {sid}
    /\ out' = IF sid \in DOMAIN clients
              THEN <<Emit("update_user_list", "all", "", UsersList(clients'), 0)>>
              ELSE <<>>
    /\ UNCHANGED <<xferVars, clientVars>>
    /\ UNCHANGED <<private_messages, message_counter, task, allocated, readNotices, seenSkips>>
    /\ UNCHANGED <<public_history, accepted, broadcasts, emit_locks>>

(* What a session_key event may carry: no key, a key that does not decode  *)
(* or does not decrypt under the server's RSA key, or a well-formed one.    *)
KeyKinds == {"missing", "invalid", "wrapped"}

decrypt_session_keyAlways(kind) == TRUE

(* decrypt_session_key: returns for a well-formed key and raises otherwise. *)
decrypt_session_key(kind) == kind = "wrapped"

(* session_key: the key is unwrapped and stored under the lock, and the    *)
(* requester gets session_key_ok; otherwise it gets an error.              *)
SessionKey(w, sid, kind) ==
    /\ task[w].op = "idle"
    /\ conn[sid] = "live"
    /\ IF kind = "missing"
       THEN /\ out' = <<Error(sid, "Missing encrypted AES key.")>>
            /\ UNCHANGED session_keys
       ELSE IF decrypt_session_key(kind)
       THEN /\ session_keys' = session_keys \cup {sid}
            /\ out' = <<Emit("session_key_ok", sid, "", {}, 0)>>
       ELSE /\ out' = <<Error(sid, "Invalid session key.")>>
            /\ UNCHANGED session_keys
    /\ UNCHANGED <<xferVars, clientVars>>
    /\ UNCHANGED <<conn, clients, private_messages, message_counter, task, allocated,
                   readNotices, seenSkips>>
    /\ UNCHANGED <<public_history, accepted, broadcasts, emit_locks>>

----------------------------------------------------------------------------
(* Private messages: handlers/message_handler.py, services/message_service.py *)

Texts == { <<>>, <<" ">>, <<"h", "i">> }

Recipients == { NotAStr, StrVal(<<>>), StrVal(<<" ">>), StrVal(<<"B", "o", "b">>),
                StrVal(<<" ", "b", "o", "b", " ">>), StrVal(<<"b", "o", "b">>),
                StrVal(<<"A", "l">>) }

(* The payloads sent: a plain text to every kind of recipient, and every   *)
(* kind of body (empty, encrypted, undecryptable, with a file) sent to Al. *)
PrivatePayloads ==
    [recipient : Recipients, text : {<<"h", "i">>}, enc : {FALSE}, cipherOk : {TRUE},
     hasFile : {FALSE}]
    \cup [recipient : {StrVal(<<"A", "l">>)}, text : Texts, enc : {FALSE},
          cipherOk : {TRUE}, hasFile : BOOLEAN]
    \cup [recipient : {StrVal(<<"A", "l">>), StrVal(<<"B", "o", "b">>)}, text : {<<>>},
          enc : {TRUE}, cipherOk : BOOLEAN, hasFile : {FALSE}]

validate_messageNoStrip(text, hasFile) == text /= <<>> \/ hasFile

(* validate_message: the text is stripped; empty text needs a file. *)
validate_message(text, hasFile) == Strip(text) /= <<>> \/ hasFile

(* The checks of on_private_message up to the recipient lookup: the set of *)
(* recipient sids the handler goes on with (empty when it reports an error). *)
ResolveRecipient(sid, data) ==
    IF ~data.recipient.isStr \/ data.recipient.s = <<>> THEN {}
    ELSE IF get_username(sid) = Strip(data.recipient.s) THEN {}
    ELSE IF data.enc /\ (sid \notin session_keys \/ ~data.cipherOk) THEN {}
    ELSE IF ~validate_message(IF data.enc THEN <<"h", "i">> ELSE data.text,
                              data.hasFile) THEN {}
    ELSE find_user_sid(Strip(data.recipient.s))

(* The error on_private_message reports when it stops before the lookup   *)
(* has found a recipient.                                                   *)
RejectMessage(sid, data) ==
    IF ~data.recipient.isStr \/ data.recipient.s = <<>>
    THEN "A valid recipient is required."
    ELSE IF get_username(sid) = Strip(data.recipient.s)
    THEN "You cannot send a private message to yourself."
    ELSE IF data.enc /\ sid \notin session_keys THEN "Session key not found."
    ELSE IF data.enc /\ ~data.cipherOk THEN "Decrypt failed"
    ELSE IF ~validate_message(IF data.enc THEN <<"h", "i">> ELSE data.text,
                              data.hasFile)
    THEN "Cannot send an empty message."
    ELSE "User not found or offline."

PrivateMessageRecv(w, sid, data) ==
    /\ task[w].op = "idle"
    /\ conn[sid] = "live"
    /\ LET found == ResolveRecipient(sid, data)
       IN  /\ task' = [task EXCEPT ![w] =
                    IF found = {} THEN Idle
                    ELSE [Idle EXCEPT !.op = "private_message", !.sid = sid,
                                      !.pc = "create", !.rsid = CHOOSE r \in found : TRUE]]
           /\ out' = IF found = {} THEN <<Error(sid, RejectMessage(sid, data))>>
                     ELSE <<>>
    /\ UNCHANGED <<xferVars, clientVars>>
    /\ UNCHANGED <<conn, clients, session_keys, private_messages, message_counter,
                   allocated, readNotices, seenSkips>>
    /\ UNCHANGED <<public_history, accepted, broadcasts, emit_locks>>

NextIdMutant(counter) == IF counter = 0 THEN 1 ELSE counter

NextId(counter) == counter + 1

NewMessage(sender_sid, recipient_sid) ==
    [sender_sid |-> sender_sid, recipient_sid |-> recipient_sid, status |-> "sent"]

(* create_private_message under the lock, then the two emits. *)
PrivateMessageCreate(w) ==
    /\ task[w].op = "private_message"
    /\ task[w].pc = "create"
    /\ message_counter < MaxMessages
    /\ message_counter' = NextId(message_counter)
    /\ private_messages' = DictPut(private_messages, message_counter',
                                   NewMessage(task[w].sid, task[w].rsid))
    /\ allocated' = Append(allocated, message_counter')
    /\ out' = <<Emit("private_message_received", task[w].rsid, "", {}, message_counter'),
                Emit("private_message_sent", task[w].sid, "", {}, message_counter')>>
    /\ task' = [task EXCEPT ![w] = Idle]
    /\ UNCHANGED <<xferVars, clientVars>>
    /\ UNCHANGED <<conn, clients, session_keys, readNotices, seenSkips>>
    /\ UNCHANGED <<public_history, accepted, broadcasts, emit_locks>>

----------------------------------------------------------------------------
(* Read receipts *)

IdKinds == {"int", "str", "float"}

(* A message id as the client sends it: an integer, the numeric string "1", *)
(* the float 1.5, or something int() rejects.                               *)
RawIds ==
    [kind : {"int"}, n : 1..(MaxMessages + 1)]
    \cup [kind : IdKinds \ {"int"}, n : {1}] \cup {[kind |-> "bad", n |-> 0]}

(* int(raw_id): 0 stands for TypeError / ValueError. *)
ToInt(raw) == IF raw.kind = "bad" THEN 0 ELSE raw.n

(* The batches sent: empty, one id of any kind, or an id of any kind        *)
(* followed by an integer id.                                              *)
Batches ==
    {<<>>} \cup {<<x>> : x \in RawIds}
           \cup {<<x, y>> : x \in RawIds, y \in {r \in RawIds : r.kind = "int"}}

(* One iteration of the loop of mark_messages_as_read: st = [pm, acks,     *)
(* skips], skips being the ids met in the already-seen branch.             *)
AlreadySeenMutant(meta) == FALSE

AlreadySeen(meta) == meta.status = "seen"

MarkOneAnyReader(st, reader_sid, raw) ==
    LET message_id == ToInt(raw)
    IN  IF message_id = 0 THEN st
        ELSE IF message_id \notin DOMAIN st.pm THEN st
        ELSE IF AlreadySeen(st.pm[message_id])
             THEN [st EXCEPT !.skips = st.skips \cup {message_id}]
        ELSE [pm    |-> [st.pm EXCEPT ![message_id].status = "seen"],
              acks  |-> Append(st.acks, <<st.pm[message_id].sender_sid, message_id>>),
              skips |-> st.skips]

MarkOne(st, reader_sid, raw) ==
    LET message_id == ToInt(raw)
    IN  IF message_id = 0 THEN st
        ELSE IF message_id \notin DOMAIN st.pm THEN st
        ELSE IF st.pm[message_id].recipient_sid /= reader_sid THEN st
        ELSE IF AlreadySeen(st.pm[message_id])
             THEN [st EXCEPT !.skips = st.skips \cup {message_id}]
        ELSE [pm    |-> [st.pm EXCEPT ![message_id].status = "seen"],
              acks  |-> Append(st.acks, <<st.pm[message_id].sender_sid, message_id>>),
              skips |-> st.skips]

RECURSIVE MarkLoop(_, _, _)
MarkLoop(st, reader_sid, ids) ==
    IF ids = <<>> THEN st
    ELSE MarkLoop(MarkOne(st, reader_sid, Head(ids)), reader_sid, Tail(ids))

mark_messages_as_read(reader_sid, message_ids) ==
    MarkLoop([pm |-> private_messages, acks |-> <<>>, skips |-> {}],
             reader_sid, message_ids)

(* private_message_read: the batch is marked under the lock. *)
PrivateMessageReadRecv(w, sid, ids) ==
    /\ task[w].op = "idle"
    /\ conn[sid] = "live"
    /\ LET r == mark_messages_as_read(sid, ids)
       IN  /\ private_messages' = r.pm
           /\ seenSkips' = seenSkips \cup r.skips
           /\ out' = <<>>
           /\ task' = [task EXCEPT ![w] =
                    IF r.acks = <<>> THEN Idle
                    ELSE [Idle EXCEPT !.op = "read", !.sid = sid, !.pc = "notify",
                                      !.acks = r.acks]]
    /\ UNCHANGED <<xferVars, clientVars>>
    /\ UNCHANGED <<conn, clients, session_keys, message_counter, allocated, readNotices>>
    /\ UNCHANGED <<public_history, accepted, broadcasts, emit_locks>>

RECURSIVE CountAcks(_, _)
CountAcks(acks, id) ==
    IF acks = <<>> THEN 0
    ELSE (IF Head(acks)[2] = id THEN 1 ELSE 0) + CountAcks(Tail(acks), id)

Notices(id) == IF id \in DOMAIN readNotices THEN readNotices[id] ELSE 0

(* The emits of private_message_read to the senders, after the lock. *)
PrivateMessageReadNotify(w) ==
    /\ task[w].op = "read"
    /\ task[w].pc = "notify"
    /\ readNotices' =
         [id \in DOMAIN readNotices \cup {task[w].acks[i][2] : i \in 1..Len(task[w].acks)}
            |-> Notices(id) + CountAcks(task[w].acks, id)]
    /\ out' = [i \in 1..Len(task[w].acks) |->
                  Emit("private_message_read", task[w].acks[i][1], "", {},
                       task[w].acks[i][2])]
    /\ task' = [task EXCEPT ![w] = Idle]
    /\ UNCHANGED <<xferVars, clientVars>>
    /\ UNCHANGED <<conn, clients, session_keys, private_messages, message_counter,
                   allocated, seenSkips>>
    /\ UNCHANGED <<public_history, accepted, broadcasts, emit_locks>>

----------------------------------------------------------------------------
(* The presence registry under every name the clients may send. *)
NextRegistry ==
    \/ \E sid \in Sids : Connect(sid)
    \/ \E w \in Workers, sid \in Sids, raw \in RawStrs : RegisterRecv(w, sid, raw)
    \/ \E w \in Workers : RegisterLocked(w)
    \/ \E sid \in Sids : Disconnect(sid)

Spec == Init /\ [][NextRegistry]_vars

(* Sessions: connections exchange keys, register as Bob or Al and leave. *)
SessionNames == {StrVal(<<"B", "o", "b">>), StrVal(<<"A", "l">>)}

NextSession ==
    \/ \E sid \in Sids : Connect(sid)
    \/ \E w \in Workers, sid \in Sids, kind \in KeyKinds : SessionKey(w, sid, kind)
    \/ \E w \in Workers, sid \in Sids, raw \in SessionNames : RegisterRecv(w, sid, raw)
    \/ \E w \in Workers : RegisterLocked(w)
    \/ \E sid \in Sids : Disconnect(sid)

SpecSession == Init /\ [][NextSession]_vars

(* The message router: two registered users exchange messages and leave. *)
MsgSids == {"s1", "s2"}

(* Two connections are open and registered as Bob and Al; Bob has         *)
(* completed the key exchange, Al has not.                                 *)
InitMessages ==
    /\ conn = [s \in Sids |-> IF s \in MsgSids THEN "live" ELSE "new"]
    /\ clients = [s \in MsgSids |-> IF s = "s1" THEN <<"B", "o", "b">> ELSE <<"A", "l">>]
    /\ session_keys = {"s1"}
    /\ private_messages = <<>>
    /\ message_counter = 0
    /\ task = [w \in Workers |-> Idle]
    /\ allocated = <<>>
    /\ readNotices = [i \in {} |-> 0]
    /\ seenSkips = {}
    /\ out = NoOut
    /\ public_history = <<>>
    /\ accepted = <<>>
    /\ broadcasts = <<>>
    /\ emit_locks = {}
    /\ NoTransfers
    /\ ClientOffline

NextMessages ==
    \/ \E sid \in MsgSids : Disconnect(sid)
    \/ \E w \in Workers, sid \in MsgSids, data \in PrivatePayloads :
          PrivateMessageRecv(w, sid, data)
    \/ \E w \in Workers : PrivateMessageCreate(w)
    \/ \E w \in Workers, sid \in MsgSids, ids \in Batches : PrivateMessageReadRecv(w, sid, ids)
    \/ \E w \in Workers : PrivateMessageReadNotify(w)

SpecMessages == InitMessages /\ [][NextMessages]_vars

(* The send path alone: the two users send each other every payload and    *)
(* leave.                                                                  *)
NextSend ==
    \/ \E sid \in MsgSids : Disconnect(sid)
    \/ \E w \in Workers, sid \in MsgSids, data \in PrivatePayloads :
          PrivateMessageRecv(w, sid, data)
    \/ \E w \in Workers : PrivateMessageCreate(w)

SpecSend == InitMessages /\ [][NextSend]_vars

----------------------------------------------------------------------------
(* Public messages: on_message, utils/validators.py, history_service.py *)

MaxPublic == 1
MaxPublicHistory == 200
MaxFileBytes == 5242880   \* 5 * 1024 * 1024

(* The "file" field of a message: absent or not a dict, a descriptor of a  *)
(* chunked transfer (transfer_id, filename, size) or an inline file (data, *)
(* size); the inline data is absent, of acceptable length or too long.     *)
NoFile == [isDict |-> FALSE, transfer_id |-> FALSE, filename |-> FALSE, size |-> 0,
           data |-> "none"]
ChunkedFile == [NoFile EXCEPT !.isDict = TRUE, !.transfer_id = TRUE, !.filename = TRUE,
                              !.size = 1]
InlineFile == [NoFile EXCEPT !.isDict = TRUE, !.size = 1, !.data = "ok"]

FilePayloads ==
    { NoFile, ChunkedFile, InlineFile,
      [ChunkedFile EXCEPT !.filename = FALSE],
      [ChunkedFile EXCEPT !.size = 0],
      [ChunkedFile EXCEPT !.size = MaxFileBytes + 1],
      [InlineFile EXCEPT !.data = "none"],
      [InlineFile EXCEPT !.size = MaxFileBytes + 1],
      [InlineFile EXCEPT !.data = "long"] }

(* sanitize_file_payload: whether a payload (not None) is returned. *)
sanitize_file_payload(f) ==
    IF ~f.isDict THEN FALSE
    ELSE IF f.transfer_id
    THEN (IF ~f.filename THEN FALSE
          ELSE IF f.size <= 0 \/ f.size > MaxFileBytes THEN FALSE
          ELSE TRUE)
    ELSE IF f.data = "none" THEN FALSE
    ELSE IF f.size > MaxFileBytes THEN FALSE
    ELSE IF f.data = "long" THEN FALSE
    ELSE TRUE

PublicTexts == { NotAStr, StrVal(<<>>), StrVal(<<" ">>), StrVal(<<"h", "i">>),
                 StrVal(<<" ", "h", "i">>) }

(* Plain messages with every text and file field, and encrypted ones whose *)
(* plaintext is empty or not, decryptable or not.                          *)
PublicPayloads ==
    [text : PublicTexts, enc : {FALSE}, cipherOk : {TRUE}, file : FilePayloads]
    \cup [text : {StrVal(<<>>), StrVal(<<"h", "i">>)}, enc : {TRUE}, cipherOk : BOOLEAN,
          file : {NoFile, ChunkedFile}]

add_messageNoEvict(history, message_data) == Append(history, message_data)

(* HistoryService.add_message *)
add_message(history, message_data) ==
    LET appended == Append(history, message_data)
    IN  IF Len(appended) > MaxPublicHistory THEN Tail(appended) ELSE appended

(* The accepted messages explored: the first MaxPublic, and those that    *)
(* take the history from one below its capacity to MaxPublic evictions.    *)
WithinPublicBound(n) ==
    \/ n < MaxPublic
    \/ MaxPublicHistory - 1 <= n /\ n < MaxPublicHistory + MaxPublic

(* message: decrypt, sanitize the file field, validate; a valid message is *)
(* added to the history and emitted to every connection, an invalid one is *)
(* logged and dropped.                                                     *)
PublicMessage(w, sid, data) ==
    /\ task[w].op = "idle"
    /\ conn[sid] = "live"
    /\ LET message_text == IF data.text.isStr THEN data.text.s ELSE <<>>
           file_payload == sanitize_file_payload(data.file)
           broadcast_data == [username |-> get_username(sid),
                              message |-> Strip(message_text), file |-> file_payload]
       IN  IF data.enc /\ sid \notin session_keys
           THEN /\ out' = <<Error(sid, "Session key not found.")>>
                /\ UNCHANGED <<public_history, accepted, broadcasts>>
           ELSE IF data.enc /\ ~data.cipherOk
           THEN /\ out' = <<Error(sid, "Decrypt failed")>>
                /\ UNCHANGED <<public_history, accepted, broadcasts>>
           ELSE IF ~validate_message(message_text, file_payload)
           THEN /\ out' = <<>>
                /\ UNCHANGED <<public_history, accepted, broadcasts>>
           ELSE /\ WithinPublicBound(Len(accepted))
                /\ public_history' = add_message(public_history, broadcast_data)
                /\ accepted' = Append(accepted, broadcast_data)
                /\ broadcasts' = Append(broadcasts, broadcast_data)
                /\ out' = <<EmitText("message", "all",
                                     IF file_payload THEN "file" ELSE "",
                                     {broadcast_data.username}, 0,
                                     broadcast_data.message)>>
    /\ UNCHANGED <<xferVars, clientVars>>
    /\ UNCHANGED <<conn, clients, session_keys, private_messages, message_counter, task,
                   allocated, readNotices, seenSkips, emit_locks>>

(* The public room: Bob and Al send every payload, a third connection      *)
(* arrives, connections leave.                                             *)
NextPublic ==
    \/ \E w \in Workers, sid \in Sids, data \in PublicPayloads : PublicMessage(w, sid, data)
    \/ \E sid \in Sids : Connect(sid)
    \/ \E sid \in Sids : Disconnect(sid)

SpecPublic == InitMessages /\ [][NextPublic]_vars

(* A history of n messages, sent in turn by Bob and Al. *)
Prefill(n) ==
    [i \in 1..n |-> [username |-> IF i % 2 = 1 THEN <<"B", "o", "b">> ELSE <<"A", "l">>,
                     message |-> <<"h", "i">>, file |-> FALSE]]

HistoryPayloads ==
    { [text |-> StrVal(<<"h", "i">>), enc |-> FALSE, cipherOk |-> TRUE, file |-> NoFile],
      [text |-> StrVal(<<>>), enc |-> FALSE, cipherOk |-> TRUE, file |-> ChunkedFile],
      [text |-> StrVal(<<" ">>), enc |-> FALSE, cipherOk |-> TRUE, file |-> NoFile],
      [text |-> StrVal(<<"h", "i">>), enc |-> TRUE, cipherOk |-> FALSE, file |-> NoFile] }

(* The room after its first messages: the history is one message short of  *)
(* its capacity, or full, and nothing has been evicted yet.                *)
InitHistory ==
    /\ conn = [s \in Sids |-> IF s \in MsgSids THEN "live" ELSE "new"]
    /\ clients = [s \in MsgSids |-> IF s = "s1" THEN <<"B", "o", "b">> ELSE <<"A", "l">>]
    /\ session_keys = {"s1"}
    /\ private_messages = <<>>
    /\ message_counter = 0
    /\ task = [w \in Workers |-> Idle]
    /\ allocated = <<>>
    /\ readNotices = [i \in {} |-> 0]
    /\ seenSkips = {}
    /\ out = NoOut
    /\ \E n \in {MaxPublicHistory - 1, MaxPublicHistory} :
          /\ public_history = Prefill(n)
          /\ accepted = Prefill(n)
          /\ broadcasts = Prefill(n)
    /\ emit_locks = {}
    /\ NoTransfers
    /\ ClientOffline

NextHistory ==
    \/ \E w \in Workers, sid \in MsgSids, data \in HistoryPayloads :
          PublicMessage(w, sid, data)
    \/ \E sid \in MsgSids : Disconnect(sid)

SpecHistory == InitHistory /\ [][NextHistory]_vars

(* Concurrent public sends: each worker runs message up to add_message *)
(* (under HistoryService.lock), and calls sio.emit in a later step.     *)
MaxBroadcast == 2

(* message, up to and including history_service.add_message. *)
on_message_add(w, sid, data) ==
    /\ task[w].op = "idle"
    /\ conn[sid] = "live"
    /\ LET message_text == IF data.text.isStr THEN data.text.s ELSE <<>>
           file_payload == sanitize_file_payload(data.file)
           broadcast_data == [username |-> get_username(sid),
                              message |-> Strip(message_text), file |-> file_payload]
       IN  IF data.enc /\ sid \notin session_keys
           THEN /\ out' = <<Error(sid, "Session key not found.")>>
                /\ UNCHANGED <<public_history, accepted, task>>
           ELSE IF data.enc /\ ~data.cipherOk
           THEN /\ out' = <<Error(sid, "Decrypt failed")>>
                /\ UNCHANGED <<public_history, accepted, task>>
           ELSE IF ~validate_message(message_text, file_payload)
           THEN /\ out' = <<>>
                /\ UNCHANGED <<public_history, accepted, task>>
           ELSE /\ Len(accepted) < MaxBroadcast
                /\ public_history' = add_message(public_history, broadcast_data)
                /\ accepted' = Append(accepted, broadcast_data)
                /\ out' = <<>>
                /\ task' = [task EXCEPT ![w] =
                               [op |-> "message", sid |-> sid, pc |-> "emit",
                                broadcast_data |-> broadcast_data]]
    /\ UNCHANGED <<xferVars, clientVars>>
    /\ UNCHANGED <<conn, clients, session_keys, private_messages, message_counter,
                   allocated, readNotices, seenSkips, broadcasts, emit_locks>>

(* message: self.sio.emit("message", broadcast_data), outside the lock. *)
on_message_emit(w) ==
    /\ task[w].op = "message"
    /\ task[w].pc = "emit"
    /\ LET broadcast_data == task[w].broadcast_data
       IN  /\ broadcasts' = Append(broadcasts, broadcast_data)
           /\ out' = <<EmitText("message", "all",
                                IF broadcast_data.file THEN "file" ELSE "",
                                {broadcast_data.username}, 0, broadcast_data.message)>>
    /\ task' = [task EXCEPT ![w] = Idle]
    /\ UNCHANGED <<xferVars, clientVars>>
    /\ UNCHANGED <<conn, clients, session_keys, private_messages, message_counter,
                   allocated, readNotices, seenSkips, public_history, accepted,
                   emit_locks>>

NextBroadcast ==
    \/ \E w \in Workers, sid \in MsgSids, data \in HistoryPayloads :
          on_message_add(w, sid, data)
    \/ \E w \in Workers : on_message_emit(w)
    \/ \E sid \in MsgSids : Disconnect(sid)

SpecBroadcast == InitMessages /\ [][NextBroadcast]_vars

----------------------------------------------------------------------------
(* Chunked file transfer: one transfer of Total chunks, fed chunk by chunk  *)
(* to the relay (services/file_transfer_service.py) or to the receiving    *)
(* client (client/handlers/file_handler.py).                               *)

Tids == {"t1"}
Totals == {1, 2, 3}
MaxArrivals == 4
XferSender == "s1"

(* The bytes of chunk i of the file: chunks differ in content and length. *)
ChunkBytes(i) == [j \in 1..(1 + (i % 2)) |-> 10 * j + i]

(* base64: every byte is carried by one symbol of the alphabet 100..199; a *)
(* payload holding anything else does not decode.                          *)
B64Encode(bytes) == [j \in 1..Len(bytes) |-> bytes[j] + 100]
B64Valid(data) == \A j \in 1..Len(data) : data[j] >= 100
B64Decode(data) == [j \in 1..Len(data) |-> data[j] - 100]
Garbled == <<0>>

(* The payloads the channel may deliver for a transfer of total chunks:    *)
(* any index, with good or garbled data; index 0 with or without metadata  *)
(* (total_chunks = 0 stands for a payload without metadata).               *)
ChunkPayloads(total) ==
    { [transfer_id |-> "t1", chunk_index |-> i,
       chunk_data |-> IF good THEN B64Encode(ChunkBytes(i)) ELSE Garbled,
       total_chunks |-> IF i = 0 /\ meta THEN total ELSE 0,
       is_last_chunk |-> (i = total - 1)] :
      i \in 0..(total - 1), good \in BOOLEAN, meta \in BOOLEAN }

(* A Python dict of chunks: the entries <<index, bytes>> in insertion order. *)
ODKeys(d) == {d[i][1] : i \in 1..Len(d)}
ODGet(d, k) == d[CHOOSE i \in 1..Len(d) : d[i][1] = k][2]
ODSet(d, k, v) ==
    IF k \in ODKeys(d)
    THEN [i \in 1..Len(d) |-> IF d[i][1] = k THEN <<k, v>> ELSE d[i]]
    ELSE Append(d, <<k, v>>)

(* sorted(keys) *)
RECURSIVE Sorted(_)
Sorted(S) ==
    IF S = {} THEN <<>>
    ELSE LET m == CHOOSE x \in S : \A y \in S : x <= y
         IN  <<m>> \o Sorted(S \ {m})

RECURSIVE Join(_, _)
Join(d, keys) ==
    IF keys = <<>> THEN <<>> ELSE ODGet(d, Head(keys)) \o Join(d, Tail(keys))

ReassembleInsertionOrder(d) == Join(d, [i \in 1..Len(d) |-> d[i][1]])

(* b"".join(chunks_dict[i] for i in sorted(chunks_dict.keys())) *)
Reassemble(d) == Join(d, Sorted(ODKeys(d)))

NewTransfer ==
    [sender_sid |-> XferSender,
     recipient |-> IF leg.is_private THEN leg.recipient ELSE <<>>,
     is_private |-> leg.is_private,
     total_chunks |-> 0, received_chunks |-> 0, metadata |-> FALSE,
     encrypted_chunks |-> <<>>]

Completion(at, d, total) ==
    [at |-> at, stored |-> Cardinality(ODKeys(d)), total |-> total,
     bytes |-> Reassemble(d)]

(* public_file_chunk / private_file_chunk: the handler finds the sender's *)
(* session key and runs handle_chunk, which takes the service lock, counts *)
(* and stores the chunk and tests for completion.  A payload that does not *)
(* decode raises after the arrival was counted.  On completion the worker  *)
(* goes on to _decrypt_and_save with the lock held.                        *)
FileChunk(w, chunk) ==
    /\ leg.to = "relay"
    /\ Len(arrivals) < MaxArrivals
    /\ task[w].op = "idle"
    /\ conn[XferSender] = "live"
    /\ XferSender \in session_keys
    /\ file_lock = "free"
    /\ arrivals' = Append(arrivals, chunk)
    /\ LET tid == chunk.transfer_id
           tr0 == IF tid \in DOMAIN active_transfers THEN active_transfers[tid]
                  ELSE NewTransfer
           tr1 == IF chunk.total_chunks > 0 /\ chunk.chunk_index = 0
                  THEN [tr0 EXCEPT !.metadata = TRUE,
                                   !.total_chunks = chunk.total_chunks]
                  ELSE tr0
           tr2 == [tr1 EXCEPT !.received_chunks = @ + 1]
           tr3 == [tr2 EXCEPT !.encrypted_chunks =
                       ODSet(@, chunk.chunk_index, B64Decode(chunk.chunk_data))]
           is_complete == tr3.received_chunks >= tr3.total_chunks /\ tr3.total_chunks > 0
       IN  IF ~B64Valid(chunk.chunk_data)
           THEN /\ active_transfers' = DictPut(active_transfers, tid, tr2)
                /\ UNCHANGED <<task, file_lock>>
           ELSE /\ active_transfers' = DictPut(active_transfers, tid, tr3)
                /\ IF ~is_complete
                   THEN UNCHANGED <<task, file_lock>>
                   ELSE /\ file_lock' = w
                        /\ task' = [task EXCEPT ![w] =
                               [Idle EXCEPT !.op = "file_chunk", !.sid = XferSender,
                                            !.pc = "decrypt", !.tid = tid]]
    /\ UNCHANGED <<conn, clients, session_keys, private_messages, message_counter,
                   allocated, readNotices, seenSkips, out>>
    /\ UNCHANGED <<leg, received_chunks, client_transfers, threads, relayed, completions,
                   failures>>
    /\ UNCHANGED clientVars
    /\ UNCHANGED <<public_history, accepted, broadcasts, emit_locks>>

(* handle_chunk, the completed transfer: _decrypt_and_save reassembles and *)
(* decrypts inside the service lock.  On success the lock is released and  *)
(* the handler goes on to stream the file; on failure cleanup_transfer     *)
(* waits for the lock the worker itself holds.                             *)
FileDecrypt(w, decryptOk) ==
    /\ task[w].op = "file_chunk"
    /\ task[w].pc = "decrypt"
    /\ file_lock = w
    /\ LET transfer == active_transfers[task[w].tid]
       IN  IF decryptOk
           THEN /\ completions' = Append(completions,
                       Completion("relay", transfer.encrypted_chunks, transfer.total_chunks))
                /\ task' = [task EXCEPT ![w] = [task[w] EXCEPT !.pc = "broadcast"]]
                /\ file_lock' = "free"
                /\ UNCHANGED failures
           ELSE /\ failures' = failures + 1
                /\ task' = [task EXCEPT ![w] = [task[w] EXCEPT !.pc = "deadlock"]]
                /\ UNCHANGED <<file_lock, completions>>
    /\ UNCHANGED <<conn, clients, session_keys, private_messages, message_counter,
                   allocated, readNotices, seenSkips, out>>
    /\ UNCHANGED <<leg, arrivals, active_transfers, received_chunks, client_transfers,
                   threads, relayed>>
    /\ UNCHANGED clientVars
    /\ UNCHANGED <<public_history, accepted, broadcasts, emit_locks>>

(* The file_chunk events that stream a file of total chunks to a room. *)
FileChunks(to, total) ==
    [i \in 1..total |-> Emit("file_chunk", to, IF i = total THEN "last" ELSE "", {}, i - 1)]

(* _broadcast_file: get_transfer_info, without an entry the handler        *)
(* returns; the target is looked up only for a private transfer that has a *)
(* recipient, and a failed lookup is reported to the sender; otherwise the *)
(* file is streamed to the target, or to every connection when there is    *)
(* none.                                                                   *)
FileBroadcast(w) ==
    /\ task[w].op = "file_chunk"
    /\ task[w].pc = "broadcast"
    /\ file_lock = "free"
    /\ LET tid == task[w].tid
           transfer == active_transfers[tid]
           lookup == transfer.is_private /\ transfer.recipient /= <<>>
           target_sid == find_user_sid(transfer.recipient)
           to == IF lookup THEN CHOOSE s \in target_sid : TRUE ELSE "all"
       IN  IF tid \notin DOMAIN active_transfers
           THEN /\ task' = [task EXCEPT ![w] = Idle]
                /\ out' = <<>>
                /\ UNCHANGED relayed
           ELSE /\ task' = [task EXCEPT ![w] = [task[w] EXCEPT !.pc = "cleanup"]]
                /\ IF lookup /\ target_sid = {}
                   THEN /\ out' = <<Error(transfer.sender_sid, "Recipient not found")>>
                        /\ UNCHANGED relayed
                   ELSE /\ out' = FileChunks(to, transfer.total_chunks)
                        /\ relayed' = Append(relayed, [tid |-> tid, to |-> to])
    /\ UNCHANGED <<conn, clients, session_keys, private_messages, message_counter,
                   allocated, readNotices, seenSkips>>
    /\ UNCHANGED <<leg, arrivals, active_transfers, file_lock, received_chunks,
                   client_transfers, threads, completions, failures>>
    /\ UNCHANGED clientVars
    /\ UNCHANGED <<public_history, accepted, broadcasts, emit_locks>>

AckTids == Tids \cup {""}

(* file_transfer_ack: an acknowledgment of a transfer the service still    *)
(* tracks is forwarded to the transfer's sender; the tracking is dropped.  *)
FileTransferAck(w, sid, transfer_id, success) ==
    /\ task[w].op = "idle"
    /\ conn[sid] = "live"
    /\ file_lock = "free"
    /\ IF transfer_id = ""
       THEN /\ out' = <<>>
            /\ UNCHANGED task
       ELSE /\ out' = IF transfer_id \in DOMAIN active_transfers
                      THEN <<Emit("file_transfer_ack", active_transfers[transfer_id].sender_sid,
                                  IF success THEN "success" ELSE "failure", {}, 0)>>
                      ELSE <<>>
            /\ task' = [task EXCEPT ![w] =
                           [Idle EXCEPT !.op = "file_transfer_ack", !.sid = sid,
                                        !.pc = "cleanup", !.tid = transfer_id]]
    /\ UNCHANGED <<conn, clients, session_keys, private_messages, message_counter,
                   allocated, readNotices, seenSkips>>
    /\ UNCHANGED <<xferVars, clientVars>>
    /\ UNCHANGED <<public_history, accepted, broadcasts, emit_locks>>

(* cleanup_transfer: in the finally clause of _broadcast_file, and at the  *)
(* end of on_file_transfer_ack.                                            *)
FileCleanup(w) ==
    /\ task[w].op \in {"file_chunk", "file_transfer_ack"}
    /\ task[w].pc = "cleanup"
    /\ file_lock = "free"
    /\ active_transfers' = DictPop(active_transfers, task[w].tid)
    /\ task' = [task EXCEPT ![w] = Idle]
    /\ UNCHANGED <<conn, clients, session_keys, private_messages, message_counter,
                   allocated, readNotices, seenSkips, out>>
    /\ UNCHANGED <<leg, arrivals, file_lock, received_chunks, client_transfers,
                   threads, completions, failures, relayed>>
    /\ UNCHANGED clientVars
    /\ UNCHANGED <<public_history, accepted, broadcasts, emit_locks>>

Done == [pc |-> "done", tid |-> "t1", total |-> 0, chunks |-> <<>>]

(* The client's file_chunk handler: the locked section and the start of    *)
(* the reassembly thread.                                                  *)
handle_file_chunk(chunk) ==
    /\ leg.to = "receiver"
    /\ Len(arrivals) < MaxArrivals
    /\ arrivals' = Append(arrivals, chunk)
    /\ LET tid == chunk.transfer_id
           rc0 == IF tid \in DOMAIN received_chunks THEN received_chunks[tid] ELSE <<>>
           rc1 == ODSet(rc0, chunk.chunk_index, B64Decode(chunk.chunk_data))
           metas == IF chunk.total_chunks > 0 /\ chunk.chunk_index = 0
                    THEN DictPut(client_transfers, tid, chunk.total_chunks)
                    ELSE client_transfers
           stored == IF tid \in DOMAIN metas THEN metas[tid] ELSE 0
           expected_chunks == IF stored = 0 /\ chunk.is_last_chunk
                              THEN chunk.chunk_index + 1 ELSE stored
           received_count == Len(rc1)
       IN  IF ~B64Valid(chunk.chunk_data)
           THEN /\ received_chunks' = DictPut(received_chunks, tid, rc0)
                /\ UNCHANGED <<client_transfers, threads>>
           ELSE /\ received_chunks' = DictPut(received_chunks, tid, rc1)
                /\ client_transfers' = metas
                /\ threads' = IF received_count >= expected_chunks /\ expected_chunks > 0
                              THEN Append(threads, [Done EXCEPT !.pc = "start", !.tid = tid])
                              ELSE threads
    /\ UNCHANGED serverVars
    /\ UNCHANGED <<leg, active_transfers, file_lock, completions, failures, relayed>>
    /\ UNCHANGED clientVars

(* _reassemble_file_background, first locked section: the snapshot. *)
ReassembleSnapshot(t) ==
    /\ threads[t].pc = "start"
    /\ LET tid == threads[t].tid
       IN  threads' = [threads EXCEPT ![t] =
               IF tid \notin DOMAIN client_transfers \/ tid \notin DOMAIN received_chunks
               THEN Done
               ELSE [pc |-> "emit", tid |-> tid, total |-> client_transfers[tid],
                     chunks |-> received_chunks[tid]]]
    /\ UNCHANGED serverVars
    /\ UNCHANGED <<leg, arrivals, active_transfers, file_lock, received_chunks,
                   client_transfers, completions, failures, relayed>>
    /\ UNCHANGED clientVars

(* _reassemble_file_background: join the chunks and emit fileTransferComplete. *)
ReassembleEmit(t) ==
    /\ threads[t].pc = "emit"
    /\ completions' = Append(completions,
                             Completion("receiver", threads[t].chunks, threads[t].total))
    /\ threads' = [threads EXCEPT ![t].pc = "cleanup"]
    /\ UNCHANGED serverVars
    /\ UNCHANGED <<leg, arrivals, active_transfers, file_lock, received_chunks,
                   client_transfers, failures, relayed>>
    /\ UNCHANGED clientVars

(* _reassemble_file_background, last locked section: the state is dropped. *)
ReassembleCleanup(t) ==
    /\ threads[t].pc = "cleanup"
    /\ received_chunks' = DictPop(received_chunks, threads[t].tid)
    /\ client_transfers' = DictPop(client_transfers, threads[t].tid)
    /\ threads' = [threads EXCEPT ![t] = Done]
    /\ UNCHANGED serverVars
    /\ UNCHANGED <<leg, arrivals, active_transfers, file_lock, completions, failures,
                   relayed>>
    /\ UNCHANGED clientVars

(* One transfer from a registered sender holding a session key, on either  *)
(* leg, for a file of one, two or three chunks.                            *)
InitTransfer ==
    /\ conn = [s \in Sids |-> IF s = XferSender THEN "live" ELSE "new"]
    /\ clients = [s \in {XferSender} |-> <<"B", "o", "b">>]
    /\ session_keys = {XferSender}
    /\ private_messages = <<>>
    /\ message_counter = 0
    /\ task = [w \in Workers |-> Idle]
    /\ allocated = <<>>
    /\ readNotices = [i \in {} |-> 0]
    /\ seenSkips = {}
    /\ out = NoOut
    /\ public_history = <<>>
    /\ accepted = <<>>
    /\ broadcasts = <<>>
    /\ emit_locks = {}
    /\ leg \in [to : {"relay", "receiver"}, total_chunks : Totals, is_private : {FALSE},
               recipient : {<<>>}]
    /\ arrivals = <<>>
    /\ active_transfers = <<>>
    /\ file_lock = "free"
    /\ received_chunks = <<>>
    /\ client_transfers = <<>>
    /\ threads = <<>>
    /\ completions = <<>>
    /\ failures = 0
    /\ relayed = <<>>
    /\ ClientOffline

NextTransfer ==
    \/ \E w \in Workers, chunk \in ChunkPayloads(leg.total_chunks) : FileChunk(w, chunk)
    \/ \E w \in Workers, decryptOk \in BOOLEAN : FileDecrypt(w, decryptOk)
    \/ \E w \in Workers : FileBroadcast(w)
    \/ \E w \in Workers : FileCleanup(w)
    \/ \E chunk \in ChunkPayloads(leg.total_chunks) : handle_file_chunk(chunk)
    \/ \E t \in DOMAIN threads : ReassembleSnapshot(t)
    \/ \E t \in DOMAIN threads : ReassembleEmit(t)
    \/ \E t \in DOMAIN threads : ReassembleCleanup(t)

SpecTransfer == InitTransfer /\ [][NextTransfer]_vars

Zed == <<"Z", "e", "d">>
RelayTotals == {1, 2}
MaxRelayArrivals == 3

(* Bob, holding a session key, uploads one file to the relay as a public   *)
(* transfer or as a private one whose recipient is missing, is Al, who is  *)
(* registered, or is Zed, who is not.                                      *)
InitRelay ==
    /\ conn = [s \in Sids |-> IF s \in MsgSids THEN "live" ELSE "new"]
    /\ clients = [s \in MsgSids |-> IF s = "s1" THEN <<"B", "o", "b">> ELSE <<"A", "l">>]
    /\ session_keys = {XferSender}
    /\ private_messages = <<>>
    /\ message_counter = 0
    /\ task = [w \in Workers |-> Idle]
    /\ allocated = <<>>
    /\ readNotices = [i \in {} |-> 0]
    /\ seenSkips = {}
    /\ out = NoOut
    /\ public_history = <<>>
    /\ accepted = <<>>
    /\ broadcasts = <<>>
    /\ emit_locks = {}
    /\ leg \in [to : {"relay"}, total_chunks : RelayTotals, is_private : BOOLEAN,
                 recipient : {<<>>, <<"A", "l">>, Zed}]
    /\ arrivals = <<>>
    /\ active_transfers = <<>>
    /\ file_lock = "free"
    /\ received_chunks = <<>>
    /\ client_transfers = <<>>
    /\ threads = <<>>
    /\ completions = <<>>
    /\ failures = 0
    /\ relayed = <<>>
    /\ ClientOffline

(* The chunks arrive intact, in any order and possibly repeated; the       *)
(* recipient may leave; any connection may acknowledge.                    *)
NextRelay ==
    \/ \E w \in Workers :
          \E chunk \in {c \in ChunkPayloads(leg.total_chunks) : B64Valid(c.chunk_data)} :
             /\ Len(arrivals) < MaxRelayArrivals
             /\ FileChunk(w, chunk)
    \/ \E w \in Workers, decryptOk \in BOOLEAN : FileDecrypt(w, decryptOk)
    \/ \E w \in Workers : FileBroadcast(w)
    \/ \E w \in Workers : FileCleanup(w)
    \/ \E w \in Workers, sid \in MsgSids, transfer_id \in AckTids, success \in BOOLEAN :
          FileTransferAck(w, sid, transfer_id, success)
    \/ \E sid \in MsgSids : Disconnect(sid)

SpecRelay == InitRelay /\ [][NextRelay]_vars

(* A one-chunk file of a second transfer, sent by the same client while    *)
(* its first transfer is still in progress.                                *)
OtherChunk ==
    [transfer_id |-> "t2", chunk_index |-> 0, chunk_data |-> B64Encode(ChunkBytes(0)),
     total_chunks |-> 1, is_last_chunk |-> TRUE]

(* The relay with two transfers in flight: the chunk handlers of both run  *)
(* on the server's worker threads and share the one service lock.          *)
NextIngest ==
    \/ \E w \in Workers :
          \E chunk \in {c \in ChunkPayloads(leg.total_chunks) : B64Valid(c.chunk_data)}
                        \cup {OtherChunk} :
             /\ Len(arrivals) < MaxRelayArrivals
             /\ FileChunk(w, chunk)
    \/ \E w \in Workers, decryptOk \in BOOLEAN : FileDecrypt(w, decryptOk)
    \/ \E w \in Workers : FileBroadcast(w)
    \/ \E w \in Workers : FileCleanup(w)

SpecIngest == InitRelay /\ [][NextIngest]_vars

----------------------------------------------------------------------------
(* server/server.py: the handlers of ChatServer that emit inside the       *)
(* section guarded by self.lock or self.file_transfer_lock.  Each handler  *)
(* is one step: it holds its lock from the first access to the last emit.  *)

(* disconnect: the roster is emitted inside "with self.lock". *)
disconnect(sid) ==
    /\ conn[sid] = "live"
    /\ conn' = [conn EXCEPT ![sid] = "gone"]
    /\ clients' = DictPop(clients, sid)
    /\ session_keys' = session_keys \ {sid}
    /\ IF sid \in DOMAIN clients
       THEN /\ out' = <<Emit("update_user_list", "all", "", UsersList(clients'), 0)>>
            /\ emit_locks' = emit_locks \cup {"lock"}
       ELSE /\ out' = <<>>
            /\ UNCHANGED emit_locks
    /\ UNCHANGED <<xferVars, clientVars>>
    /\ UNCHANGED <<private_messages, message_counter, task, allocated, readNotices,
                   seenSkips, public_history, accepted, broadcasts>>

(* file_transfer_ack: the acknowledgment of a tracked transfer is          *)
(* forwarded, and the transfer deleted, inside "with                       *)
(* self.file_transfer_lock".                                               *)
file_transfer_ack(sid, transfer_id, success) ==
    /\ conn[sid] = "live"
    /\ file_lock = "free"
    /\ IF transfer_id \in DOMAIN active_transfers
       THEN /\ out' = <<Emit("file_transfer_ack", active_transfers[transfer_id].sender_sid,
                             IF success THEN "success" ELSE "failure", {}, 0)>>
            /\ emit_locks' = emit_locks \cup {"file_transfer_lock"}
            /\ active_transfers' = DictPop(active_transfers, transfer_id)
       ELSE /\ out' = <<>>
            /\ UNCHANGED <<emit_locks, active_transfers>>
    /\ UNCHANGED <<conn, clients, session_keys, private_messages, message_counter, task,
                   allocated, readNotices, seenSkips, public_history, accepted, broadcasts>>
    /\ UNCHANGED <<leg, arrivals, file_lock, received_chunks, client_transfers, threads,
                   completions, failures, relayed>>
    /\ UNCHANGED clientVars

(* _handle_file_chunk: the chunk is stored and, when it completes the      *)
(* upload, the file is decrypted and streamed, all inside "with            *)
(* self.file_transfer_lock"; the finally clause deletes the transfer.  A   *)
(* payload that does not decode raises after the arrival was counted.      *)
ChatServer_handle_file_chunk(chunk, decryptOk) ==
    /\ leg.to = "relay"
    /\ Len(arrivals) < MaxArrivals
    /\ conn[XferSender] = "live"
    /\ file_lock = "free"
    /\ arrivals' = Append(arrivals, chunk)
    /\ LET tid == chunk.transfer_id
           tr0 == IF tid \in DOMAIN active_transfers THEN active_transfers[tid]
                  ELSE NewTransfer
           tr1 == IF chunk.total_chunks > 0 /\ chunk.chunk_index = 0
                  THEN [tr0 EXCEPT !.metadata = TRUE,
                                   !.total_chunks = chunk.total_chunks]
                  ELSE tr0
           tr2 == [tr1 EXCEPT !.received_chunks = @ + 1]
           tr3 == [tr2 EXCEPT !.encrypted_chunks =
                       ODSet(@, chunk.chunk_index, B64Decode(chunk.chunk_data))]
           is_complete == tr3.received_chunks >= tr3.total_chunks /\ tr3.total_chunks > 0
           lookup == tr3.is_private /\ tr3.recipient /= <<>>
           target_sid == find_user_sid(tr3.recipient)
           to == IF lookup THEN CHOOSE s \in target_sid : TRUE ELSE "all"
       IN  IF ~B64Valid(chunk.chunk_data)
           THEN /\ active_transfers' = DictPut(active_transfers, tid, tr2)
                /\ out' = <<>>
                /\ UNCHANGED <<completions, failures, relayed, emit_locks>>
           ELSE IF ~is_complete
           THEN /\ active_transfers' = DictPut(active_transfers, tid, tr3)
                /\ out' = <<>>
                /\ UNCHANGED <<completions, failures, relayed, emit_locks>>
           ELSE /\ active_transfers' = DictPop(active_transfers, tid)
                /\ emit_locks' = emit_locks \cup {"file_transfer_lock"}
                /\ IF XferSender \notin session_keys
                   THEN /\ out' = <<Error(XferSender, "Session key not found for file.")>>
                        /\ UNCHANGED <<completions, failures, relayed>>
                   ELSE IF ~decryptOk
                   THEN /\ out' = <<Error(XferSender, "File decrypt failed")>>
                        /\ failures' = failures + 1
                        /\ UNCHANGED <<completions, relayed>>
                   ELSE /\ completions' = Append(completions,
                               Completion("relay", tr3.encrypted_chunks, tr3.total_chunks))
                        /\ UNCHANGED failures
                        /\ IF lookup /\ target_sid = {}
                           THEN /\ out' = <<Error(XferSender, "Recipient not found")>>
                                /\ UNCHANGED relayed
                           ELSE /\ out' = FileChunks(to, tr3.total_chunks)
                                /\ relayed' = Append(relayed, [tid |-> tid, to |-> to])
    /\ UNCHANGED <<conn, clients, session_keys, private_messages, message_counter, task,
                   allocated, readNotices, seenSkips, public_history, accepted, broadcasts>>
    /\ UNCHANGED <<leg, file_lock, received_chunks, client_transfers, threads>>
    /\ UNCHANGED clientVars

(* The monolithic server relays one upload of Bob's; connections          *)
(* acknowledge and leave.                                                  *)
NextMonolith ==
    \/ \E chunk \in ChunkPayloads(leg.total_chunks), decryptOk \in BOOLEAN :
          /\ Len(arrivals) < MaxRelayArrivals
          /\ ChatServer_handle_file_chunk(chunk, decryptOk)
    \/ \E sid \in MsgSids, transfer_id \in AckTids, success \in BOOLEAN :
          file_transfer_ack(sid, transfer_id, success)
    \/ \E sid \in MsgSids : disconnect(sid)

SpecMonolith == InitRelay /\ [][NextMonolith]_vars

----------------------------------------------------------------------------
(* The client: client/core/client.py, core/connection_manager.py,           *)
(* core/session_manager.py and the send paths of the handlers.  Three       *)
(* threads take part: the UI thread making calls, the socket thread         *)
(* running the event handlers, and the threads started by connect_async     *)
(* and _start_reconnection.                                                 *)

Calls == {"register", "typing", "message"}
DesiredName == "alice"
MaxSubmits == 3
MaxConnects == 3
MaxReconnectAttempts == 10
ReconnectDelay == 1
MaxReconnectDelay == 30

RECURSIVE Pow2(_)
Pow2(n) == IF n = 0 THEN 1 ELSE 2 * Pow2(n - 1)

Min(a, b) == IF a <= b THEN a ELSE b

BackoffDelayUncapped(k) == ReconnectDelay * Pow2(k - 1)

(* min(self._reconnect_delay * (2 ** (attempts - 1)), self._max_reconnect_delay) *)
BackoffDelay(k) == Min(ReconnectDelay * Pow2(k - 1), MaxReconnectDelay)

(* A Qt signal emitted by the ConnectionManager. *)
Signal(name, n, state) == [sig |-> name, n |-> n, state |-> state]

(* set_connection_state: connectionStateChanged is emitted on a change only. *)
SetConnectionState(sigs, state) ==
    IF connection_state /= state
    THEN Append(sigs, Signal("connectionStateChanged", 0, state))
    ELSE sigs

AttemptsExhaustedMutant(n) == n > MaxReconnectAttempts + 1

(* if self._reconnect_attempts > self._max_reconnect_attempts *)
AttemptsExhausted(n) == n > MaxReconnectAttempts

(* What sio.emit puts on the wire, with the connection it goes out on,      *)
(* whether session_key_ok had arrived on that connection and, for a flushed *)
(* event, the desired identity the flush found.                             *)
WireEntry(event, n, flushed) ==
    [event |-> event, n |-> n, epoch |-> epoch, acked |-> (ackEpoch = epoch),
     flushed |-> flushed, desired |-> IF flushed THEN sock.desired ELSE ""]

HasRegister(events) == \E i \in 1..Len(events) : events[i].event = "register"

(* A call of the UI: register, a typing notice or a secure message, up to   *)
(* the test of the connected flag in _emit_when_connected.  A secure        *)
(* message without a session key raises and goes nowhere.                   *)
Submit(call) ==
    /\ ui.pc = "idle"
    /\ nsub < MaxSubmits
    /\ nsub' = nsub + 1
    /\ desired_username' = IF call = "register" THEN DesiredName ELSE desired_username
    /\ IF call = "message" /\ session_aes_key = 0
       THEN UNCHANGED <<ui, wire>>
       ELSE IF connected
       THEN /\ wire' = Append(wire, WireEntry(call, nsub', FALSE))
            /\ UNCHANGED ui
       ELSE /\ ui' = [pc |-> "append", event |-> call, n |-> nsub']
            /\ UNCHANGED wire
    /\ UNCHANGED <<link, epoch, connected, connecting, should_reconnect,
                   user_requested_disconnect, reconnect_attempts, rec, recLog,
                   connector, session_aes_key, session_ready, ackPending, ackEpoch,
                   pending_events, sock, queued>>
    /\ UNCHANGED <<connection_state, signals>>
    /\ UNCHANGED <<serverVars, xferVars, current_username, last_error, superVars, gateVars>>

(* _emit_when_connected, the else branch: queue the event and connect_async. *)
UiAppend ==
    /\ ui.pc = "append"
    /\ pending_events' = Append(pending_events, [event |-> ui.event, n |-> ui.n])
    /\ queued' = queued \cup {ui.n}
    /\ IF connected \/ connecting
       THEN UNCHANGED <<connecting, connector>>
       ELSE connecting' = TRUE /\ connector' = TRUE
    /\ ui' = UiIdle
    /\ UNCHANGED <<link, epoch, connected, should_reconnect, user_requested_disconnect,
                   reconnect_attempts, rec, recLog, session_aes_key, session_ready,
                   ackPending, ackEpoch, desired_username, sock, nsub, wire>>
    /\ UNCHANGED <<connection_state, signals>>
    /\ UNCHANGED <<serverVars, xferVars, current_username, last_error, superVars, gateVars>>

(* sio.connect succeeds and the connect handler runs: on_connected, the key *)
(* exchange, and the first part of _flush_pending_events (the register that *)
(* is put in front when none is queued).                                    *)
OnConnect(exchangeOk) ==
    /\ link = "down"
    /\ epoch < MaxConnects
    /\ sock.pc = "idle"
    /\ link' = "up"
    /\ epoch' = epoch + 1
    /\ connected' = TRUE
    /\ connecting' = FALSE
    /\ reconnect_attempts' = 0
    /\ session_aes_key' = epoch + 1
    /\ ackPending' = exchangeOk
    /\ wire' = IF exchangeOk
               THEN Append(wire, [WireEntry("session_key", 0, FALSE)
                                     EXCEPT !.epoch = epoch + 1, !.acked = FALSE])
               ELSE wire
    /\ pending_events' =
          IF desired_username /= "" /\ ~HasRegister(pending_events)
          THEN <<[event |-> "register", n |-> 0]>> \o pending_events
          ELSE pending_events
    /\ sock' = [pc |-> "flush", i |-> 1, desired |-> desired_username]
    /\ connection_state' = "connected"
    /\ signals' = LET s1 == SetConnectionState(signals, "connected")
                  IN  IF reconnect_attempts > 0
                      THEN Append(s1, Signal("reconnected", 0, ""))
                      ELSE s1
    /\ UNCHANGED <<should_reconnect, user_requested_disconnect, session_ready, ackEpoch,
                   desired_username, ui, nsub, queued>>
    /\ UNCHANGED <<serverVars, xferVars, current_username, last_error, gateVars>>

(* The thread of connect_async gets through. *)
ConnectorOk(exchangeOk) ==
    /\ connector
    /\ OnConnect(exchangeOk)
    /\ connector' = FALSE
    /\ UNCHANGED <<rec, recLog>>
    /\ UNCHANGED superVars

(* The thread of connect_async fails: sio.connect raises. *)
ConnectorFail ==
    /\ connector
    /\ connector' = FALSE
    /\ connecting' = FALSE
    /\ UNCHANGED <<link, epoch, connected, should_reconnect, user_requested_disconnect,
                   reconnect_attempts, rec, recLog, session_aes_key, session_ready,
                   ackPending, ackEpoch, desired_username, pending_events, ui, sock,
                   nsub, queued, wire>>
    /\ UNCHANGED <<connection_state, signals>>
    /\ UNCHANGED <<serverVars, xferVars, current_username, last_error, superVars, gateVars>>

(* _flush_pending_events: one turn of the loop over the queue. *)
FlushEmit ==
    /\ sock.pc = "flush"
    /\ sock.i <= Len(pending_events)
    /\ wire' = IF link = "up"
               THEN Append(wire, WireEntry(pending_events[sock.i].event,
                                           pending_events[sock.i].n, TRUE))
               ELSE wire
    /\ sock' = [sock EXCEPT !.i = @ + 1]
    /\ UNCHANGED <<link, epoch, connected, connecting, should_reconnect,
                   user_requested_disconnect, reconnect_attempts, rec, recLog,
                   connector, session_aes_key, session_ready, ackPending, ackEpoch,
                   desired_username, pending_events, ui, nsub, queued>>
    /\ UNCHANGED <<connection_state, signals>>
    /\ UNCHANGED <<serverVars, xferVars, current_username, last_error, superVars, gateVars>>

(* _flush_pending_events: the loop finds the end of the queue. *)
FlushEnd ==
    /\ sock.pc = "flush"
    /\ sock.i > Len(pending_events)
    /\ sock' = [sock EXCEPT !.pc = "clear"]
    /\ UNCHANGED <<link, epoch, connected, connecting, should_reconnect,
                   user_requested_disconnect, reconnect_attempts, rec, recLog,
                   connector, session_aes_key, session_ready, ackPending, ackEpoch,
                   desired_username, pending_events, ui, nsub, queued, wire>>
    /\ UNCHANGED <<connection_state, signals>>
    /\ UNCHANGED <<serverVars, xferVars, current_username, last_error, superVars, gateVars>>

(* _flush_pending_events: self._pending_events.clear() *)
FlushClear ==
    /\ sock.pc = "clear"
    /\ pending_events' = <<>>
    /\ sock' = SockIdle
    /\ UNCHANGED <<link, epoch, connected, connecting, should_reconnect,
                   user_requested_disconnect, reconnect_attempts, rec, recLog,
                   connector, session_aes_key, session_ready, ackPending, ackEpoch,
                   desired_username, ui, nsub, queued, wire>>
    /\ UNCHANGED <<connection_state, signals>>
    /\ UNCHANGED <<serverVars, xferVars, current_username, last_error, superVars, gateVars>>

(* The session_key_ok handler. *)
SessionKeyOk ==
    /\ sock.pc = "idle"
    /\ link = "up"
    /\ ackPending
    /\ session_ready' = TRUE
    /\ ackEpoch' = epoch
    /\ ackPending' = FALSE
    /\ UNCHANGED <<link, epoch, connected, connecting, should_reconnect,
                   user_requested_disconnect, reconnect_attempts, rec, recLog,
                   connector, session_aes_key, desired_username, pending_events, ui,
                   sock, nsub, queued, wire>>
    /\ UNCHANGED <<connection_state, signals>>
    /\ UNCHANGED <<serverVars, xferVars, current_username, last_error, superVars, gateVars>>

ShouldStartReconnectionMutant(enabled, user_requested) == TRUE

(* on_disconnected: the test that guards _start_reconnection. *)
ShouldStartReconnection(enabled, user_requested) == enabled /\ ~user_requested

(* The connection drops and the disconnect handler runs: on_disconnected,   *)
(* which starts the reconnection thread unless one is alive.                *)
NetDrop ==
    /\ link = "up"
    /\ sock.pc = "idle"
    /\ link' = "down"
    /\ ackPending' = FALSE
    /\ connected' = FALSE
    /\ connecting' = FALSE
    /\ connection_state' = "offline"
    /\ LET startsLoop == /\ ShouldStartReconnection(should_reconnect,
                                                    user_requested_disconnect)
                         /\ rec = "none"
           emitted == Append(SetConnectionState(IF startsLoop THEN <<>> ELSE signals,
                                                "offline"),
                             Signal("disconnected", 0,
                                    IF user_requested_disconnect THEN "user" ELSE "lost"))
       IN  /\ signals' = emitted
           /\ IF startsLoop
              THEN rec' = "loop" /\ recLog' = <<>>
              ELSE UNCHANGED <<rec, recLog>>
    /\ UNCHANGED <<epoch, should_reconnect, user_requested_disconnect,
                   reconnect_attempts, connector, session_aes_key, session_ready,
                   ackEpoch, desired_username, pending_events, ui, sock, nsub, queued,
                   wire>>
    /\ UNCHANGED <<serverVars, xferVars, current_username, last_error, superVars, gateVars>>

(* disconnect() called by the user.  An open connection is closed, which   *)
(* runs the disconnect handler and on_disconnected with the request flag   *)
(* set; a connect attempt that is under way is not interrupted.            *)
UserDisconnect ==
    /\ ~user_requested_disconnect
    /\ user_requested_disconnect' = TRUE
    /\ should_reconnect' = FALSE
    /\ link' = "down"
    /\ ackPending' = FALSE
    /\ connected' = FALSE
    /\ connecting' = FALSE
    /\ desired_username' = ""
    /\ connection_state' = IF link = "up" THEN "offline" ELSE connection_state
    /\ signals' = IF link = "up"
                  THEN Append(SetConnectionState(signals, "offline"),
                              Signal("disconnected", 0, "user"))
                  ELSE signals
    /\ UNCHANGED <<epoch, reconnect_attempts, rec, recLog, connector, session_aes_key,
                   session_ready, ackEpoch, pending_events, ui, sock,
                   nsub, queued, wire>>
    /\ UNCHANGED <<serverVars, xferVars, current_username, last_error, superVars, gateVars>>

(* _reconnection_loop: the loop test, the attempt counter and its limit. *)
LoopTop ==
    /\ rec = "loop"
    /\ IF should_reconnect /\ ~connected
       THEN /\ reconnect_attempts' = reconnect_attempts + 1
            /\ IF AttemptsExhausted(reconnect_attempts + 1)
               THEN /\ rec' = "none"
                    /\ connecting' = FALSE
                    /\ UNCHANGED <<recLog, connection_state, signals>>
               ELSE /\ rec' = "connect"
                    /\ connecting' = TRUE
                    /\ recLog' = Append(recLog, 0)
                    /\ connection_state' = "reconnecting"
                    /\ signals' = Append(SetConnectionState(signals, "reconnecting"),
                                         Signal("reconnecting", reconnect_attempts + 1, ""))
       ELSE /\ rec' = "none"
            /\ connecting' = IF connected THEN connecting ELSE FALSE
            /\ UNCHANGED <<reconnect_attempts, recLog, connection_state, signals>>
    /\ UNCHANGED <<link, epoch, connected, should_reconnect, user_requested_disconnect,
                   connector, session_aes_key, session_ready, ackPending, ackEpoch,
                   desired_username, pending_events, ui, sock, nsub, queued, wire>>
    /\ UNCHANGED <<serverVars, xferVars, current_username, last_error, superVars, gateVars>>

(* _reconnection_loop: sio.connect succeeds and the thread returns. *)
LoopConnectOk(exchangeOk) ==
    /\ rec = "connect"
    /\ OnConnect(exchangeOk)
    /\ rec' = "none"
    /\ UNCHANGED <<connector, recLog>>
    /\ UNCHANGED superVars

(* _reconnection_loop: sio.connect raises; the delay is computed and slept. *)
LoopConnectFail ==
    /\ rec = "connect"
    /\ connecting' = FALSE
    /\ recLog' = Append(recLog, BackoffDelay(reconnect_attempts))
    /\ rec' = "sleep"
    /\ UNCHANGED <<link, epoch, connected, should_reconnect, user_requested_disconnect,
                   reconnect_attempts, connector, session_aes_key, session_ready,
                   ackPending, ackEpoch, desired_username, pending_events, ui, sock,
                   nsub, queued, wire>>
    /\ UNCHANGED <<connection_state, signals>>
    /\ UNCHANGED <<serverVars, xferVars, current_username, last_error, superVars, gateVars>>

(* _reconnection_loop: time.sleep(delay) returns. *)
LoopWake ==
    /\ rec = "sleep"
    /\ rec' = "loop"
    /\ UNCHANGED <<link, epoch, connected, connecting, should_reconnect,
                   user_requested_disconnect, reconnect_attempts, recLog, connector,
                   session_aes_key, session_ready, ackPending, ackEpoch,
                   desired_username, pending_events, ui, sock, nsub, queued, wire>>
    /\ UNCHANGED <<connection_state, signals>>
    /\ UNCHANGED <<serverVars, xferVars, current_username, last_error, superVars, gateVars>>

(* The messages of the error events the server sends. *)
UsernameTaken ==
    <<"U", "s", "e", "r", "n", "a", "m", "e", " ", "'", "a", "l", "i", "c", "e", "'", " ",
      "i", "s", " ", "a", "l", "r", "e", "a", "d", "y", " ", "t", "a", "k", "e", "n", ".">>
UsernameRequired ==
    <<"A", " ", "v", "a", "l", "i", "d", " ", "u", "s", "e", "r", "n", "a", "m", "e", " ",
      "i", "s", " ", "r", "e", "q", "u", "i", "r", "e", "d", ".">>
InvalidSessionKey ==
    <<"I", "n", "v", "a", "l", "i", "d", " ", "s", "e", "s", "s", "i", "o", "n", " ", "k", "e",
      "y", ".">>
ErrorTexts == {UsernameTaken, UsernameRequired, InvalidSessionKey}

MentionsNameCaseSensitive(message) == Contains(message, <<"u", "s", "e", "r", "n", "a", "m", "e">>)

(* "username" in lowered or "name" in lowered *)
MentionsName(message) ==
    \/ Contains(Lower(message), <<"u", "s", "e", "r", "n", "a", "m", "e">>)
    \/ Contains(Lower(message), <<"n", "a", "m", "e">>)

(* The error handler: an error about the name withdraws the desired        *)
(* identity, and the current name when it is that identity.                *)
OnError(message) ==
    /\ link = "up"
    /\ sock.pc = "idle"
    /\ last_error' = message
    /\ IF MentionsName(message)
       THEN /\ current_username' =
                   IF desired_username /= "" /\ desired_username = current_username
                   THEN "" ELSE current_username
            /\ desired_username' = ""
       ELSE UNCHANGED <<current_username, desired_username>>
    /\ UNCHANGED <<link, epoch, connected, connecting, should_reconnect,
                   user_requested_disconnect, reconnect_attempts, rec, recLog,
                   connector, session_aes_key, session_ready, ackPending, ackEpoch,
                   pending_events, ui, sock, nsub, queued, wire>>
    /\ UNCHANGED <<connection_state, signals>>
    /\ UNCHANGED <<serverVars, xferVars, superVars, gateVars>>

UserLists == {{}, {DesiredName}, {"bob"}}

(* The update_user_list handler: the desired identity becomes the current  *)
(* name once the roster holds it; a current name the roster lacks is       *)
(* dropped.                                                                *)
OnUpdateUserList(users) ==
    /\ link = "up"
    /\ sock.pc = "idle"
    /\ current_username' =
          IF desired_username /= "" /\ desired_username \in users
          THEN desired_username
          ELSE IF current_username /= "" /\ current_username \notin users
          THEN "" ELSE current_username
    /\ UNCHANGED <<link, epoch, connected, connecting, should_reconnect,
                   user_requested_disconnect, reconnect_attempts, rec, recLog,
                   connector, session_aes_key, session_ready, ackPending, ackEpoch,
                   desired_username, pending_events, ui, sock, nsub, queued, wire>>
    /\ UNCHANGED <<connection_state, signals, last_error>>
    /\ UNCHANGED <<serverVars, xferVars, superVars, gateVars>>

(* The UI makes calls while the client connects on demand, loses the        *)
(* connection and connects again.                                           *)
NextClient ==
    \/ \E call \in Calls : Submit(call)
    \/ UiAppend
    \/ \E exchangeOk \in BOOLEAN : ConnectorOk(exchangeOk)
    \/ ConnectorFail
    \/ FlushEmit
    \/ FlushEnd
    \/ FlushClear
    \/ SessionKeyOk
    \/ NetDrop

SpecClient == Init /\ [][NextClient]_vars

(* The client's identity: the user registers while the client connects,   *)
(* receives rosters and errors, loses the connection and connects again.   *)
NextIdentity ==
    \/ Submit("register")
    \/ UiAppend
    \/ ConnectorOk(TRUE)
    \/ ConnectorFail
    \/ FlushEmit
    \/ FlushEnd
    \/ FlushClear
    \/ NetDrop
    \/ LoopTop
    \/ LoopConnectOk(TRUE)
    \/ \E message \in ErrorTexts : OnError(message)
    \/ \E users \in UserLists : OnUpdateUserList(users)

SpecIdentity == Init /\ [][NextIdentity]_vars

(* The reconnection supervisor: a connected client loses its connection.    *)
InitBackoff ==
    /\ conn = [s \in Sids |-> "new"]
    /\ clients = <<>>
    /\ session_keys = {}
    /\ private_messages = <<>>
    /\ message_counter = 0
    /\ task = [w \in Workers |-> Idle]
    /\ allocated = <<>>
    /\ readNotices = [i \in {} |-> 0]
    /\ seenSkips = {}
    /\ out = NoOut
    /\ public_history = <<>>
    /\ accepted = <<>>
    /\ broadcasts = <<>>
    /\ emit_locks = {}
    /\ NoTransfers
    /\ link = "up"
    /\ epoch = 1
    /\ connected = TRUE
    /\ connecting = FALSE
    /\ should_reconnect = TRUE
    /\ user_requested_disconnect = FALSE
    /\ reconnect_attempts = 0
    /\ rec = "none"
    /\ recLog = <<>>
    /\ connector = FALSE
    /\ session_aes_key = 1
    /\ session_ready = FALSE
    /\ ackPending = TRUE
    /\ ackEpoch = 0
    /\ desired_username = ""
    /\ pending_events = <<>>
    /\ ui = UiIdle
    /\ sock = SockIdle
    /\ nsub = 0
    /\ queued = {}
    /\ wire = <<[event |-> "session_key", n |-> 0, epoch |-> 1, acked |-> FALSE,
                 flushed |-> FALSE, desired |-> ""]>>
    /\ connection_state = "connected"
    /\ signals = <<>>
    /\ current_username = ""
    /\ last_error = <<>>
    /\ disc = <<>>
    /\ loops = <<>>
    /\ reconnect_thread = 0
    /\ post_key_queue = <<>>
    /\ released = <<>>

NextBackoff ==
    \/ NetDrop
    \/ UserDisconnect
    \/ LoopTop
    \/ \E exchangeOk \in BOOLEAN : LoopConnectOk(exchangeOk)
    \/ LoopConnectFail
    \/ LoopWake
    \/ FlushEnd
    \/ FlushClear
    \/ SessionKeyOk

SpecBackoff == InitBackoff /\ [][NextBackoff]_vars

(* Manual disconnect: a connected client is disconnected by its user or by *)
(* the network, and connects again through the reconnection loop or on      *)
(* demand when the UI makes a call.                                         *)
NextManual ==
    \/ UserDisconnect
    \/ Submit("typing")
    \/ UiAppend
    \/ ConnectorOk(TRUE)
    \/ ConnectorFail
    \/ FlushEmit
    \/ FlushEnd
    \/ FlushClear
    \/ NetDrop
    \/ LoopTop
    \/ LoopConnectOk(TRUE)

SpecManual == InitBackoff /\ [][NextManual]_vars

(* The supervisor thread by thread.  The disconnect handler of a connection *)
(* runs on that connection's read thread, so the handlers of two            *)
(* connections are two threads; _start_reconnection tests and replaces      *)
(* _reconnect_thread without a lock.                                        *)

(* The calls the user makes while the supervisor is followed thread by thread. *)
MaxSupervisorCalls == 1

(* self._reconnect_thread and self._reconnect_thread.is_alive() *)
IsAlive(t) == t /= 0 /\ loops[t] /= "done"

Running == {t \in DOMAIN loops : loops[t] /= "done"}

(* The connection is lost and its read thread enters the disconnect handler. *)
Drop ==
    /\ link = "up"
    /\ link' = "down"
    /\ ackPending' = FALSE
    /\ disc' = DictPut(disc, epoch, "on_disconnected")
    /\ UNCHANGED <<epoch, connected, connecting, should_reconnect,
                   user_requested_disconnect, reconnect_attempts, rec, recLog, connector,
                   session_aes_key, session_ready, ackEpoch, desired_username,
                   pending_events, ui, sock, nsub, queued, wire>>
    /\ UNCHANGED <<connection_state, signals, loops, reconnect_thread>>
    /\ UNCHANGED <<serverVars, xferVars, current_username, last_error, gateVars>>

(* on_disconnected up to the test that guards _start_reconnection. *)
on_disconnected(h) ==
    /\ disc[h] = "on_disconnected"
    /\ connected' = FALSE
    /\ connecting' = FALSE
    /\ connection_state' = "offline"
    /\ signals' = Append(SetConnectionState(signals, "offline"),
                         Signal("disconnected", 0,
                                IF user_requested_disconnect THEN "user" ELSE "lost"))
    /\ disc' = IF should_reconnect /\ ~user_requested_disconnect
               THEN [disc EXCEPT ![h] = "start_reconnection"]
               ELSE DictPop(disc, h)
    /\ UNCHANGED <<link, epoch, should_reconnect, user_requested_disconnect,
                   reconnect_attempts, rec, recLog, connector, session_aes_key,
                   session_ready, ackPending, ackEpoch, desired_username, pending_events,
                   ui, sock, nsub, queued, wire>>
    /\ UNCHANGED <<loops, reconnect_thread>>
    /\ UNCHANGED <<serverVars, xferVars, current_username, last_error, gateVars>>

(* _start_reconnection: the test of _reconnect_thread. *)
start_reconnection_test(h) ==
    /\ disc[h] = "start_reconnection"
    /\ disc' = IF IsAlive(reconnect_thread)
               THEN DictPop(disc, h)
               ELSE [disc EXCEPT ![h] = "start_thread"]
    /\ UNCHANGED <<link, epoch, connected, connecting, should_reconnect,
                   user_requested_disconnect, reconnect_attempts, rec, recLog, connector,
                   session_aes_key, session_ready, ackPending, ackEpoch,
                   desired_username, pending_events, ui, sock, nsub, queued, wire>>
    /\ UNCHANGED <<connection_state, signals, loops, reconnect_thread>>
    /\ UNCHANGED <<serverVars, xferVars, current_username, last_error, gateVars>>

(* _start_reconnection: the thread is created, stored and started. *)
start_reconnection_thread(h) ==
    /\ disc[h] = "start_thread"
    /\ loops' = Append(loops, "loop")
    /\ reconnect_thread' = Len(loops) + 1
    /\ disc' = DictPop(disc, h)
    /\ UNCHANGED <<link, epoch, connected, connecting, should_reconnect,
                   user_requested_disconnect, reconnect_attempts, rec, recLog, connector,
                   session_aes_key, session_ready, ackPending, ackEpoch,
                   desired_username, pending_events, ui, sock, nsub, queued, wire>>
    /\ UNCHANGED <<connection_state, signals>>
    /\ UNCHANGED <<serverVars, xferVars, current_username, last_error, gateVars>>

(* _reconnection_loop of thread t: the loop test, the counter and its limit. *)
reconnection_loop(t) ==
    /\ loops[t] = "loop"
    /\ IF should_reconnect /\ ~connected
       THEN /\ reconnect_attempts' = reconnect_attempts + 1
            /\ IF AttemptsExhausted(reconnect_attempts + 1)
               THEN /\ loops' = [loops EXCEPT ![t] = "done"]
                    /\ connecting' = FALSE
                    /\ UNCHANGED <<connection_state, signals>>
               ELSE /\ loops' = [loops EXCEPT ![t] = "connect"]
                    /\ connecting' = TRUE
                    /\ connection_state' = "reconnecting"
                    /\ signals' = Append(SetConnectionState(signals, "reconnecting"),
                                         Signal("reconnecting", reconnect_attempts + 1, ""))
       ELSE /\ loops' = [loops EXCEPT ![t] = "done"]
            /\ connecting' = IF connected THEN connecting ELSE FALSE
            /\ UNCHANGED <<reconnect_attempts, connection_state, signals>>
    /\ UNCHANGED <<link, epoch, connected, should_reconnect, user_requested_disconnect,
                   rec, recLog, connector, session_aes_key, session_ready, ackPending,
                   ackEpoch, desired_username, pending_events, ui, sock, nsub, queued,
                   wire>>
    /\ UNCHANGED <<disc, reconnect_thread>>
    /\ UNCHANGED <<serverVars, xferVars, current_username, last_error, gateVars>>

(* _reconnection_loop of thread t: sio.connect succeeds and the connect *)
(* handler runs; the thread has still to return.                        *)
reconnection_loop_connected(t, exchangeOk) ==
    /\ loops[t] = "connect"
    /\ OnConnect(exchangeOk)
    /\ loops' = [loops EXCEPT ![t] = "return"]
    /\ UNCHANGED <<connector, rec, recLog, disc, reconnect_thread>>

(* _reconnection_loop of thread t: return after a successful connect; the *)
(* thread is no longer alive.                                              *)
reconnection_loop_return(t) ==
    /\ loops[t] = "return"
    /\ loops' = [loops EXCEPT ![t] = "done"]
    /\ UNCHANGED <<link, epoch, connected, connecting, should_reconnect,
                   user_requested_disconnect, reconnect_attempts, rec, recLog, connector,
                   session_aes_key, session_ready, ackPending, ackEpoch,
                   desired_username, pending_events, ui, sock, nsub, queued, wire>>
    /\ UNCHANGED <<connection_state, signals, disc, reconnect_thread>>
    /\ UNCHANGED <<serverVars, xferVars, current_username, last_error, gateVars>>

(* _reconnection_loop of thread t: sio.connect raises, as it also does when *)
(* the client is connected already; the thread sleeps and loops.            *)
reconnection_loop_failed(t) ==
    /\ loops[t] = "connect"
    /\ connecting' = FALSE
    /\ loops' = [loops EXCEPT ![t] = "loop"]
    /\ UNCHANGED <<link, epoch, connected, should_reconnect, user_requested_disconnect,
                   reconnect_attempts, rec, recLog, connector, session_aes_key,
                   session_ready, ackPending, ackEpoch, desired_username, pending_events,
                   ui, sock, nsub, queued, wire>>
    /\ UNCHANGED <<connection_state, signals, disc, reconnect_thread>>
    /\ UNCHANGED <<serverVars, xferVars, current_username, last_error, gateVars>>

NextSupervisor ==
    \/ (nsub < MaxSupervisorCalls /\ Submit("typing"))
    \/ UiAppend
    \/ ConnectorOk(TRUE)
    \/ ConnectorFail
    \/ FlushEmit
    \/ FlushEnd
    \/ FlushClear
    \/ Drop
    \/ \E h \in DOMAIN disc : on_disconnected(h)
    \/ \E h \in DOMAIN disc : start_reconnection_test(h)
    \/ \E h \in DOMAIN disc : start_reconnection_thread(h)
    \/ \E t \in DOMAIN loops : reconnection_loop(t)
    \/ \E t \in DOMAIN loops : reconnection_loop_connected(t, TRUE)
    \/ \E t \in DOMAIN loops : reconnection_loop_return(t)
    \/ \E t \in DOMAIN loops : reconnection_loop_failed(t)

SpecSupervisor == InitBackoff /\ [][NextSupervisor]_vars

(* The session gate of client/client.py: secure calls pass _emit_post_key,  *)
(* which emits them when _session_ready is set and queues them otherwise.   *)
(* A payload is encrypted before it is queued; its key is the number of the *)
(* connection whose connect handler generated the key.                      *)

(* _send_secure_text_message up to the test of _session_ready in           *)
(* _emit_post_key, and _emit_when_connected when the test passes.           *)
send_secure_text_message ==
    /\ ui.pc = "idle"
    /\ nsub < MaxSubmits
    /\ nsub' = nsub + 1
    /\ IF session_aes_key = 0
       THEN UNCHANGED <<ui, wire, pending_events, queued, connecting, connector>>
       ELSE IF ~session_ready
       THEN /\ ui' = [pc |-> "post_key", event |-> "message", n |-> nsub',
                      key |-> session_aes_key]
            /\ UNCHANGED <<wire, pending_events, queued, connecting, connector>>
       ELSE IF connected
       THEN /\ wire' = Append(wire, WireEntry("message", nsub', FALSE))
            /\ UNCHANGED <<ui, pending_events, queued, connecting, connector>>
       ELSE /\ pending_events' = Append(pending_events,
                                        [event |-> "message", n |-> nsub'])
            /\ queued' = queued \cup {nsub'}
            /\ IF connecting
               THEN UNCHANGED <<connecting, connector>>
               ELSE connecting' = TRUE /\ connector' = TRUE
            /\ UNCHANGED <<ui, wire>>
    /\ UNCHANGED <<link, epoch, connected, should_reconnect, user_requested_disconnect,
                   reconnect_attempts, rec, recLog, session_aes_key, session_ready,
                   ackPending, ackEpoch, desired_username, sock>>
    /\ UNCHANGED <<connection_state, signals>>
    /\ UNCHANGED <<serverVars, xferVars, current_username, last_error, superVars, gateVars>>

(* _emit_post_key, the else branch: the call is appended to _post_key_queue. *)
emit_post_key_append ==
    /\ ui.pc = "post_key"
    /\ post_key_queue' = Append(post_key_queue,
                                [event |-> ui.event, n |-> ui.n, key |-> ui.key])
    /\ ui' = UiIdle
    /\ UNCHANGED <<link, epoch, connected, connecting, should_reconnect,
                   user_requested_disconnect, reconnect_attempts, rec, recLog, connector,
                   session_aes_key, session_ready, ackPending, ackEpoch,
                   desired_username, pending_events, sock, nsub, queued, wire>>
    /\ UNCHANGED <<connection_state, signals, released>>
    /\ UNCHANGED <<serverVars, xferVars, current_username, last_error, superVars>>

(* What the connect handler emits for a queued event. *)
Flushed(e) ==
    [event |-> e.event, n |-> e.n, epoch |-> epoch + 1, acked |-> FALSE,
     flushed |-> TRUE, desired |-> desired_username]

(* The connect handler: the flags, a new session key and its exchange, and *)
(* the pending events, which are copied and cleared under the lock and     *)
(* then emitted with a register in front when none is queued.              *)
ChatClient_connect(exchangeOk) ==
    /\ link = "down"
    /\ epoch < MaxConnects
    /\ link' = "up"
    /\ epoch' = epoch + 1
    /\ connected' = TRUE
    /\ connecting' = FALSE
    /\ reconnect_attempts' = 0
    /\ session_aes_key' = epoch + 1
    /\ ackPending' = exchangeOk
    /\ LET key == IF exchangeOk
                  THEN <<[event |-> "session_key", n |-> 0, epoch |-> epoch + 1,
                          acked |-> FALSE, flushed |-> FALSE, desired |-> ""]>>
                  ELSE <<>>
           pending == IF desired_username /= "" /\ ~HasRegister(pending_events)
                      THEN <<[event |-> "register", n |-> 0]>> \o pending_events
                      ELSE pending_events
       IN  wire' = wire \o key \o [i \in 1..Len(pending) |-> Flushed(pending[i])]
    /\ pending_events' = <<>>
    /\ connection_state' = "connected"
    /\ signals' = LET s1 == SetConnectionState(signals, "connected")
                  IN  IF reconnect_attempts > 0
                      THEN Append(s1, Signal("reconnected", 0, ""))
                      ELSE s1
    /\ UNCHANGED <<should_reconnect, user_requested_disconnect, session_ready, ackEpoch,
                   desired_username, ui, sock, nsub, queued>>
    /\ UNCHANGED <<serverVars, xferVars, current_username, last_error, superVars, gateVars>>

(* The thread of _ensure_connected gets through. *)
ensure_connected_ok(exchangeOk) ==
    /\ connector
    /\ ChatClient_connect(exchangeOk)
    /\ connector' = FALSE
    /\ UNCHANGED <<rec, recLog>>

(* _reconnection_loop: sio.connect succeeds and the thread returns. *)
reconnection_ok(exchangeOk) ==
    /\ rec = "connect"
    /\ ChatClient_connect(exchangeOk)
    /\ rec' = "none"
    /\ UNCHANGED <<connector, recLog>>

(* What session_key_ok emits for a call of the queue. *)
Released(e) == [n |-> e.n, key |-> e.key, epoch |-> epoch]

(* The session_key_ok handler: _session_ready is set, the queue is copied *)
(* and cleared under the lock, and the copies are emitted in order.        *)
on_session_key_ok ==
    /\ link = "up"
    /\ ackPending
    /\ session_ready' = TRUE
    /\ ackEpoch' = epoch
    /\ ackPending' = FALSE
    /\ post_key_queue' = <<>>
    /\ released' = released \o [i \in 1..Len(post_key_queue) |->
                                   Released(post_key_queue[i])]
    /\ wire' = wire \o [i \in 1..Len(post_key_queue) |->
                           [event |-> post_key_queue[i].event, n |-> post_key_queue[i].n,
                            epoch |-> epoch, acked |-> TRUE, flushed |-> FALSE,
                            desired |-> ""]]
    /\ UNCHANGED <<link, epoch, connected, connecting, should_reconnect,
                   user_requested_disconnect, reconnect_attempts, rec, recLog, connector,
                   session_aes_key, desired_username, pending_events, ui, sock, nsub,
                   queued>>
    /\ UNCHANGED <<connection_state, signals>>
    /\ UNCHANGED <<serverVars, xferVars, current_username, last_error, superVars>>

(* The connection drops and the disconnect handler runs: the flags, the   *)
(* roster, the pending events and the name are cleared, and the            *)
(* reconnection thread is started unless one is alive.                     *)
ChatClient_disconnect ==
    /\ link = "up"
    /\ link' = "down"
    /\ ackPending' = FALSE
    /\ connected' = FALSE
    /\ connecting' = FALSE
    /\ connection_state' = "offline"
    /\ pending_events' = <<>>
    /\ current_username' = ""
    /\ LET startsLoop == /\ ShouldStartReconnection(should_reconnect,
                                                    user_requested_disconnect)
                         /\ rec = "none"
       IN  /\ signals' = Append(SetConnectionState(IF startsLoop THEN <<>> ELSE signals,
                                                  "offline"),
                                Signal("disconnected", 0, ""))
           /\ IF startsLoop
              THEN rec' = "loop" /\ recLog' = <<>>
              ELSE UNCHANGED <<rec, recLog>>
    /\ UNCHANGED <<epoch, should_reconnect, user_requested_disconnect,
                   reconnect_attempts, connector, session_aes_key, session_ready,
                   ackEpoch, desired_username, ui, sock, nsub, queued, wire>>
    /\ UNCHANGED <<serverVars, xferVars, last_error, superVars, gateVars>>

(* An attempt that fails after a connect of _ensure_connected has reset    *)
(* the attempt counter waits 2 ** -1 seconds; that wait is left out here.  *)
NextGate ==
    \/ send_secure_text_message
    \/ emit_post_key_append
    \/ \E exchangeOk \in BOOLEAN : ensure_connected_ok(exchangeOk)
    \/ ConnectorFail
    \/ \E exchangeOk \in BOOLEAN : reconnection_ok(exchangeOk)
    \/ on_session_key_ok
    \/ ChatClient_disconnect
    \/ LoopTop
    \/ (reconnect_attempts > 0 /\ LoopConnectFail)
    \/ LoopWake

SpecGate == InitBackoff /\ [][NextGate]_vars

(* _send_encrypted_file_chunks of client/client.py: the file is encrypted   *)
(* and cut into chunks, and the chunks pass _emit_post_key one by one in    *)
(* index order.  ui.n is the index of the chunk the loop is at.             *)
send_encrypted_file_chunks(total) ==
    /\ ui.pc = "idle"
    /\ nsub = 0
    /\ session_aes_key /= 0
    /\ nsub' = 1
    /\ ui' = [pc |-> "file_loop", event |-> "public_file_chunk", n |-> 0,
              key |-> session_aes_key, total |-> total]
    /\ UNCHANGED <<link, epoch, connected, connecting, should_reconnect,
                   user_requested_disconnect, reconnect_attempts, rec, recLog, connector,
                   session_aes_key, session_ready, ackPending, ackEpoch,
                   desired_username, pending_events, sock, queued, wire>>
    /\ UNCHANGED <<connection_state, signals>>
    /\ UNCHANGED <<serverVars, xferVars, current_username, last_error, superVars, gateVars>>

(* The send loop after chunk ui.n has been handed over. *)
NextChunk == IF ui.n + 1 = ui.total THEN UiIdle
             ELSE [ui EXCEPT !.pc = "file_loop", !.n = @ + 1]

(* _emit_post_key for the chunk the loop is at: the test of _session_ready, *)
(* and _emit_when_connected when it is set.                                 *)
emit_post_key_chunk ==
    /\ ui.pc = "file_loop"
    /\ IF ~session_ready
       THEN /\ ui' = [ui EXCEPT !.pc = "file_post_key"]
            /\ UNCHANGED <<wire, pending_events, connecting, connector>>
       ELSE IF connected
       THEN /\ wire' = Append(wire, WireEntry(ui.event, ui.n, FALSE))
            /\ ui' = NextChunk
            /\ UNCHANGED <<pending_events, connecting, connector>>
       ELSE /\ pending_events' = Append(pending_events, [event |-> ui.event, n |-> ui.n])
            /\ IF connecting
               THEN UNCHANGED <<connecting, connector>>
               ELSE connecting' = TRUE /\ connector' = TRUE
            /\ ui' = NextChunk
            /\ UNCHANGED wire
    /\ UNCHANGED <<link, epoch, connected, should_reconnect, user_requested_disconnect,
                   reconnect_attempts, rec, recLog, session_aes_key, session_ready,
                   ackPending, ackEpoch, desired_username, sock, nsub, queued>>
    /\ UNCHANGED <<connection_state, signals>>
    /\ UNCHANGED <<serverVars, xferVars, current_username, last_error, superVars, gateVars>>

(* _emit_post_key, the else branch, for the chunk the loop is at. *)
emit_post_key_chunk_append ==
    /\ ui.pc = "file_post_key"
    /\ post_key_queue' = Append(post_key_queue,
                                [event |-> ui.event, n |-> ui.n, key |-> ui.key])
    /\ ui' = NextChunk
    /\ UNCHANGED <<link, epoch, connected, connecting, should_reconnect,
                   user_requested_disconnect, reconnect_attempts, rec, recLog, connector,
                   session_aes_key, session_ready, ackPending, ackEpoch,
                   desired_username, pending_events, sock, nsub, queued, wire>>
    /\ UNCHANGED <<connection_state, signals, released>>
    /\ UNCHANGED <<serverVars, xferVars, current_username, last_error, superVars>>

NextSendFile ==
    \/ \E total \in Totals : send_encrypted_file_chunks(total)
    \/ emit_post_key_chunk
    \/ emit_post_key_chunk_append
    \/ \E exchangeOk \in BOOLEAN : ensure_connected_ok(exchangeOk)
    \/ ConnectorFail
    \/ \E exchangeOk \in BOOLEAN : reconnection_ok(exchangeOk)
    \/ on_session_key_ok
    \/ ChatClient_disconnect
    \/ LoopTop

SpecSendFile == InitBackoff /\ [][NextSendFile]_vars

----------------------------------------------------------------------------
(* C1: no two entries of the presence registry hold display names that are *)
(* equal when case-folded, whatever the interleaving of register and       *)
(* disconnect events.                                                      *)
C1_UniqueNames ==
    \A s \in DOMAIN clients : \A t \in DOMAIN clients :
        s /= t => Lower(clients[s]) /= Lower(clients[t])

(* Two live connections are registered, a third one has left, and a        *)
(* registration of a case variant of a registered name is at the lock.     *)
C1_Witness ==
    \E s \in DOMAIN clients : \E t \in DOMAIN clients : \E u \in Sids : \E w \in Workers :
        /\ s /= t /\ conn[s] = "live" /\ conn[t] = "live" /\ conn[u] = "gone"
        /\ task[w].op = "register"
        /\ task[w].name /= clients[s]
        /\ Lower(task[w].name) = Lower(clients[s])

(* C2: the ids allocated to private messages are strictly increasing in    *)
(* allocation order, so none is allocated twice, and the stored messages   *)
(* are exactly the allocated ids.                                          *)
C2_MonotonicIds ==
    /\ \A i \in 1..Len(allocated) : \A j \in 1..Len(allocated) :
           i < j => allocated[i] < allocated[j]
    /\ DOMAIN private_messages = {allocated[i] : i \in 1..Len(allocated)}

(* A message is allocated while the send of another connection waits for   *)
(* the lock.                                                               *)
C2_Witness ==
    /\ Len(allocated) >= 1
    /\ \E w \in Workers :
          /\ task[w].op = "private_message"
          /\ task[w].sid /= private_messages[allocated[1]].sender_sid

(* C3: for every message id, at most one private_message_read notification *)
(* is emitted to the sender, however often the id is read.                 *)
C3_AtMostOneNotice ==
    \A id \in DOMAIN readNotices : readNotices[id] <= 1

(* A message was read again by its recipient after it was seen, and one    *)
(* notification has been emitted for it.                                   *)
C3_Witness ==
    \E id \in seenSkips : Notices(id) = 1

(* An id of a batch is eligible when it is known, addressed to the reader  *)
(* and not yet seen.                                                       *)
Eligible(id, reader_sid) ==
    /\ id \in DOMAIN private_messages
    /\ private_messages[id].recipient_sid = reader_sid
    /\ private_messages[id].status /= "seen"

InBatch(id, ids) == \E i \in 1..Len(ids) : ToInt(ids[i]) = id

(* Exactly the eligible ids of a batch become seen; every other message is *)
(* left as it is, wherever the skipped ids stand in the batch.             *)
BatchIsPerId ==
    \A sid \in MsgSids : \A ids \in Batches :
        LET r == mark_messages_as_read(sid, ids)
        IN  \A id \in DOMAIN private_messages :
                r.pm[id] = IF Eligible(id, sid) /\ InBatch(id, ids)
                           THEN [private_messages[id] EXCEPT !.status = "seen"]
                           ELSE private_messages[id]

StatusStep(from, to) ==
    \A id \in DOMAIN private_messages :
        /\ private_messages'[id].sender_sid = private_messages[id].sender_sid
        /\ private_messages'[id].recipient_sid = private_messages[id].recipient_sid
        /\ private_messages[id].status = "seen" => private_messages'[id].status = "seen"
        /\ private_messages'[id].status /= private_messages[id].status =>
              /\ private_messages[id].status = from
              /\ private_messages'[id].status = to
              /\ \E w \in Workers :
                    /\ task[w].op = "idle"
                    /\ task'[w].op = "read"
                    /\ task'[w].sid = private_messages[id].recipient_sid

(* C4 as stated: a read by the recorded recipient is the only thing that   *)
(* changes a status, and the only change is delivered -> seen.             *)
C4_DeliveredToSeen == [][StatusStep("delivered", "seen")]_vars /\ []BatchIsPerId

(* C4 amended: the record is stored with status "sent" ("delivered" is     *)
(* only the status of the payload emitted to the recipient), so the only   *)
(* change is sent -> seen, made by a read of the recorded recipient; seen  *)
(* is never left, and ids that are unknown, addressed to another           *)
(* connection or already seen are skipped one by one.                      *)
C4_SentToSeen == [][StatusStep("sent", "seen")]_vars /\ []BatchIsPerId

(* A read has marked one message while an earlier message was skipped as   *)
(* already seen.                                                           *)
C4_Witness ==
    \E w \in Workers :
        /\ task[w].op = "read"
        /\ Len(task[w].acks) = 1
        /\ seenSkips /= {}

(* C5: a transfer is reported complete at most once, and every report is  *)
(* made with as many distinct chunk indices stored as totalChunks, which   *)
(* is positive, whatever the arrival sequence, duplicates included.        *)
C5_CompleteOnceWhenAll ==
    /\ Len(completions) <= 1
    /\ \A i \in 1..Len(completions) :
          /\ completions[i].total > 0
          /\ completions[i].stored = completions[i].total

(* C6: once the transfer has completed or failed, the arrival of a chunk   *)
(* with its transferId creates and changes no transfer state and starts    *)
(* no further completion or error.                                         *)
Finished == completions /= <<>> \/ failures > 0

C6_LateChunkNoOp ==
    [][(Finished /\ Len(arrivals') > Len(arrivals)) =>
          UNCHANGED <<active_transfers, received_chunks, client_transfers, threads,
                      completions, failures>>]_vars

(* The file: the chunks 0 .. n-1 one after the other. *)
RECURSIVE FileBytes(_)
FileBytes(n) == IF n = 0 THEN <<>> ELSE FileBytes(n - 1) \o ChunkBytes(n - 1)

(* Every chunk delivered so far decodes, chunk 0 carries the metadata and   *)
(* no index was delivered twice.                                           *)
ExactlyOnce ==
    /\ \A i \in 1..Len(arrivals) :
          /\ B64Valid(arrivals[i].chunk_data)
          /\ arrivals[i].chunk_index = 0 => arrivals[i].total_chunks > 0
    /\ \A i \in 1..Len(arrivals) : \A j \in 1..Len(arrivals) :
          i /= j => arrivals[i].chunk_index /= arrivals[j].chunk_index

(* C7: when each of the n chunks is delivered exactly once, in whatever    *)
(* order, a completion is reported only after all n have arrived and the   *)
(* reassembled bytes are the chunks concatenated in increasing index order.*)
C7_ReassemblyInIndexOrder ==
    ExactlyOnce =>
        \A i \in 1..Len(completions) :
            /\ Len(arrivals) = leg.total_chunks
            /\ completions[i].bytes = FileBytes(leg.total_chunks)

(* Three chunks arrived in the order 2, 0, 1 and the transfer completed. *)
C7_Witness ==
    /\ ExactlyOnce
    /\ [i \in 1..Len(arrivals) |-> arrivals[i].chunk_index] = <<2, 0, 1>>
    /\ Len(completions) = 1

(* The flushed events of one connection keep the order of their calls. *)
FlushFifo ==
    \A i \in 1..Len(wire) : \A j \in 1..Len(wire) :
        (/\ i < j
         /\ wire[i].flushed /\ wire[j].flushed
         /\ wire[i].epoch = wire[j].epoch
         /\ wire[i].n > 0 /\ wire[j].n > 0) => wire[i].n < wire[j].n

(* With a desired identity, nothing is flushed ahead of a register. *)
RegisterFirst ==
    \A j \in 1..Len(wire) :
        (wire[j].flushed /\ wire[j].desired /= "") =>
            /\ \E i \in 1..j : /\ wire[i].flushed
                               /\ wire[i].epoch = wire[j].epoch
                               /\ wire[i].event = "register"
            /\ wire[j].event = "register" =>
                  \A i \in 1..j : (wire[i].flushed /\ wire[i].epoch = wire[j].epoch)
                                     => wire[i].event = "register"

(* A queued call is still in the queue or was transmitted. *)
NoQueuedCallLost ==
    \A n \in queued :
        \/ \E i \in 1..Len(pending_events) : pending_events[i].n = n
        \/ \E i \in 1..Len(wire) : wire[i].n = n

(* C8: the calls made while the client is not connected are emitted at the *)
(* next connect in the order they were made, none is dropped, and with a   *)
(* desired identity a register goes out before every other queued call.    *)
C8_FlushFifoRegisterFirst == FlushFifo /\ RegisterFirst /\ NoQueuedCallLost

(* C9: no secure message is transmitted on a connection on which           *)
(* session_key_ok has not been observed.                                   *)
C9_NoSecureBeforeAck ==
    \A i \in 1..Len(wire) : wire[i].event = "message" => wire[i].acked

(* The waits in seconds after the first, second, ... tenth failed attempt. *)
BackoffTable == <<1, 2, 4, 8, 16, 30, 30, 30, 30, 30>>

(* C10: the reconnection loop starts with an attempt, and the wait after   *)
(* the k-th consecutive failure is min(1s * 2^(k-1), 30s): 1, 2, 4, 8, 16  *)
(* and then 30 seconds, never more.                                        *)
C10_BackoffWaits ==
    /\ Len(recLog) <= 2 * Len(BackoffTable)
    /\ \A i \in 1..Len(recLog) :
          IF i % 2 = 1 THEN recLog[i] = 0
          ELSE recLog[i] = BackoffTable[i \div 2] /\ recLog[i] <= 30

(* Three failures were followed by waits of 1, 2 and 4 seconds and a       *)
(* fourth attempt, and later a capped wait of 30 seconds was taken.        *)
C10_Witness ==
    /\ Len(recLog) >= 12
    /\ SubSeq(recLog, 1, 7) = <<0, 1, 0, 2, 0, 4, 0>>
    /\ recLog[12] = 30

(* The attempt-number events emitted since the reconnection loop was       *)
(* started, and the connect attempts made since then.                      *)
AttemptEvents == SelectSeq(signals, LAMBDA x : x.sig = "reconnecting")

ConnectAttempts == Len(SelectSeq(recLog, LAMBDA x : x = 0))

(* C11: within one reconnection episode every connect attempt is preceded  *)
(* by an attempt-number event, the events carry 1, 2, 3, ... in order, and *)
(* no more than 10 connect attempts are made.                              *)
C11_AttemptEventsNumbered ==
    /\ \A i \in 1..Len(AttemptEvents) : AttemptEvents[i].n = i
    /\ ConnectAttempts = Len(AttemptEvents)
    /\ ConnectAttempts <= 10
    /\ rec = "connect" =>
          /\ signals[Len(signals)].sig = "reconnecting"
          /\ signals[Len(signals)].n = ConnectAttempts

(* Ten attempts were announced and failed, and the loop has stopped. *)
C11_Witness ==
    /\ rec = "none"
    /\ ~connected
    /\ Len(AttemptEvents) = 10
    /\ AttemptEvents[10].n = 10
    /\ ConnectAttempts = 10

(* C12: once every allowed attempt has failed and the loop has stopped,    *)
(* the application has been sent a terminal notification after the last    *)
(* attempt-number event, and the connection state is offline, not          *)
(* reconnecting.                                                           *)
C12_ExhaustionEndsOffline ==
    (rec = "none" /\ ~connected /\ reconnect_attempts > 10) =>
        /\ connection_state = "offline"
        /\ signals[Len(signals)].sig /= "reconnecting"

(* C13: once the user has requested a disconnect, the reconnection thread  *)
(* starts no connect attempt and no wait, and the client does not become   *)
(* connected (no outbound call is made in this specification).             *)
C13_NoReconnectAfterUserDisconnect ==
    [][user_requested_disconnect =>
          /\ ~connected'
          /\ rec' = "connect" => rec = "connect"
          /\ rec' = "sleep" => rec = "sleep"]_vars

(* A name the registry must refuse: empty once trimmed, or longer than 50  *)
(* characters.                                                             *)
BadName(raw) == raw.isStr /\ (Strip(raw.s) = <<>> \/ PyLen(Strip(raw.s)) > 50)

Collides(name) == \E s \in DOMAIN clients : Lower(clients[s]) = Lower(name)

OnlyErrorTo(sid) == Len(out') = 1 /\ out'[1].event = "error" /\ out'[1].to = sid

(* C14: a register request whose trimmed name is empty or longer than 50   *)
(* characters, or collides case-insensitively with a registered name when  *)
(* the registry is consulted, ends the request with one error event sent   *)
(* to the requester only, without roster broadcast and with the registry   *)
(* unchanged.                                                              *)
C14_RejectedRegister ==
    [][\A w \in Workers :
          /\ \A sid \in Sids, raw \in {r \in RawStrs : BadName(r)} :
                (task[w].op = "idle" /\ conn[sid] = "live" /\ RegisterRecv(w, sid, raw)) =>
                    OnlyErrorTo(sid) /\ clients' = clients /\ task'[w] = Idle
          /\ (task[w].op = "register" /\ Collides(task[w].name) /\ RegisterLocked(w)) =>
                    OnlyErrorTo(task[w].sid) /\ clients' = clients /\ task'[w] = Idle]_vars

(* A connection that asked for a name another connection holds in another  *)
(* case was refused, and the holder is still the only registered user.     *)
C14_Witness ==
    \E s \in Sids :
        /\ out = <<Error(s, "Username is already taken.")>>
        /\ s \notin DOMAIN clients
        /\ Cardinality(DOMAIN clients) = 1
        /\ \A w \in Workers : task[w].op = "idle"

(* C15: the step in which a connection goes away removes its name and its  *)
(* session key, and when it had a name the step emits to every connection  *)
(* a roster that holds the names of the remaining users and not the name   *)
(* that left.                                                              *)
C15_DisconnectRemoves ==
    [][\A sid \in Sids :
          (conn[sid] = "live" /\ conn'[sid] = "gone") =>
              /\ sid \notin DOMAIN clients'
              /\ sid \notin session_keys'
              /\ sid \in DOMAIN clients =>
                    /\ Len(out') = 1
                    /\ out'[1].event = "update_user_list"
                    /\ out'[1].to = "all"
                    /\ clients[sid] \notin out'[1].users
                    /\ out'[1].users = {clients[s] : s \in DOMAIN clients \ {sid}}]_vars

(* A registered connection with a session key has left; the roster sent    *)
(* names the one user that remains, who still holds a key.                 *)
C15_Witness ==
    \E sid \in Sids, other \in Sids :
        /\ conn[sid] = "gone"
        /\ sid \notin DOMAIN clients
        /\ other \in DOMAIN clients
        /\ other \in session_keys
        /\ session_keys = {other}
        /\ out = <<Emit("update_user_list", "all", "", {clients[other]}, 0)>>

(* C19: a session_key event with a key that unwraps stores a key for the   *)
(* requester and is answered with session_key_ok to the requester; one     *)
(* without key or with a key that does not unwrap is answered with one     *)
(* error to the requester only, stores nothing (a connection without key   *)
(* stays without key) and leaves the connection open.                      *)
C19_SessionKeyReply ==
    [][\A w \in Workers, sid \in Sids, kind \in KeyKinds :
          (task[w].op = "idle" /\ conn[sid] = "live" /\ SessionKey(w, sid, kind)) =>
              IF kind = "wrapped"
              THEN /\ sid \in session_keys'
                   /\ Len(out') = 1
                   /\ out'[1].event = "session_key_ok"
                   /\ out'[1].to = sid
              ELSE /\ OnlyErrorTo(sid)
                   /\ session_keys' = session_keys
                   /\ sid \notin session_keys => sid \notin session_keys'
                   /\ conn' = conn]_vars

(* One connection holds a key; another one sent a key that does not        *)
(* unwrap, got the error, holds no key and is still connected.             *)
C19_Witness ==
    \E sid \in Sids, other \in Sids :
        /\ out = <<Error(sid, "Invalid session key.")>>
        /\ conn[sid] = "live"
        /\ sid \notin session_keys
        /\ other \in session_keys

(* A recipient a private send must be refused for: missing or empty, not   *)
(* the name of a registered user, or the sender's own name.                *)
BadRecipient(sid, data) ==
    \/ ~data.recipient.isStr
    \/ data.recipient.s = <<>>
    \/ Strip(data.recipient.s) \notin {clients[s] : s \in DOMAIN clients}
    \/ sid \in DOMAIN clients /\ clients[sid] = Strip(data.recipient.s)

(* C16: a private send to such a recipient ends with one error event sent  *)
(* to the sender only; no id is allocated, no record is created and the    *)
(* handler does not go on to deliver anything.                             *)
C16_RejectedPrivateSend ==
    [][\A w \in Workers, sid \in MsgSids, data \in PrivatePayloads :
          (/\ task[w].op = "idle"
           /\ conn[sid] = "live"
           /\ conn' = conn
           /\ BadRecipient(sid, data)
           /\ PrivateMessageRecv(w, sid, data)) =>
              /\ OnlyErrorTo(sid)
              /\ task'[w] = Idle
              /\ UNCHANGED <<message_counter, private_messages, allocated>>]_vars

(* Bob has sent Al one message, Al has left, and Bob's next send to Al was *)
(* refused: still one id and one record.                                   *)
C16_Witness ==
    /\ out = <<Error("s1", "User not found or offline.")>>
    /\ conn["s2"] = "gone"
    /\ message_counter = 1
    /\ DOMAIN private_messages = {1}
    /\ \A w \in Workers : task[w].op = "idle"

(* A public message the server has the text of (plain, or encrypted and    *)
(* decryptable), whose text is missing or empty once trimmed, and whose    *)
(* file field is not one of the valid descriptors.                         *)
EmptyNoFile(sid, data) ==
    /\ data.enc => sid \in session_keys /\ data.cipherOk
    /\ ~data.text.isStr \/ Strip(data.text.s) = <<>>
    /\ data.file \notin {ChunkedFile, InlineFile}

(* C17: such a message is dropped: a step either emits nothing to anybody, *)
(* no error included, and leaves the history as it is, or it is not the    *)
(* handling of such a message.                                             *)
C17_EmptyPublicDropped ==
    [][\/ /\ out' = <<>>
          /\ public_history' = public_history
       \/ \A sid \in Sids : \A data \in PublicPayloads : \A w \in Workers :
             ~(/\ conn[sid] = "live"
               /\ EmptyNoFile(sid, data)
               /\ task[w].op = "idle"
               /\ conn' = conn
               /\ PublicMessage(w, sid, data))]_vars

(* A message is in the history, nobody has arrived or left, and the last   *)
(* message handled was dropped without any event.                          *)
C17_Witness ==
    /\ Len(public_history) = 1
    /\ out = <<>>
    /\ \A sid \in MsgSids : conn[sid] = "live"
    /\ conn["s3"] = "new"

(* The worker is about to stream a completed private transfer whose        *)
(* recipient is missing, empty or the name of no registered connection.    *)
UnresolvedPrivate(w) ==
    /\ task[w].op = "file_chunk"
    /\ task[w].pc = "broadcast"
    /\ task[w].tid \in DOMAIN active_transfers
    /\ active_transfers[task[w].tid].is_private
    /\ find_user_sid(active_transfers[task[w].tid].recipient) = {}

(* C18: when the upload of a private transfer completes and its recipient  *)
(* cannot be resolved, the relay emits an error to the sender and no       *)
(* file_chunk to anybody.                                                  *)
C18_UnresolvedPrivateNotForwarded ==
    [][\A w \in Workers :
          (UnresolvedPrivate(w) /\ FileBroadcast(w)) =>
              /\ \E i \in 1..Len(out') : out'[i].event = "error" /\ out'[i].to = XferSender
              /\ \A i \in 1..Len(out') : out'[i].event /= "file_chunk"]_vars

(* The connection was sent the chunks of the transfer by the relay. *)
ReceivedRelay(sid, transfer_id) ==
    \E i \in 1..Len(relayed) :
        /\ relayed[i].tid = transfer_id
        /\ relayed[i].to \in {sid, "all"}

(* C20: an acknowledgment sent by a connection the relay streamed the      *)
(* transfer to is forwarded to the connection that sent the transfer.      *)
C20_AckForwardedToSender ==
    [][\A w \in Workers, sid \in MsgSids, success \in BOOLEAN :
          (/\ task[w].op = "idle"
           /\ conn[sid] = "live"
           /\ ReceivedRelay(sid, "t1")
           /\ FileTransferAck(w, sid, "t1", success)) =>
              \E i \in 1..Len(out') :
                  /\ out'[i].event = "file_transfer_ack"
                  /\ out'[i].to = XferSender]_vars

(* The last n elements of a sequence, all of it when it is shorter. *)
LastN(seq, n) ==
    IF Len(seq) <= n THEN seq ELSE SubSeq(seq, Len(seq) - n + 1, Len(seq))

(* C21: the history never holds more than its capacity of 200 messages,   *)
(* and it is the most recent (at most 200) accepted public messages in     *)
(* the order they were appended: the oldest is evicted first.              *)
C21_HistoryCapped ==
    /\ Len(public_history) <= MaxPublicHistory
    /\ public_history = LastN(accepted, MaxPublicHistory)

(* More messages were accepted than the history holds: one was evicted. *)
C21_Witness ==
    /\ Len(accepted) > MaxPublicHistory
    /\ Len(public_history) = MaxPublicHistory

(* The errors by which the server rejects a name. *)
NameErrors == {UsernameTaken, UsernameRequired}

Synthesized(events) ==
    \E i \in 1..Len(events) : events[i].event = "register" /\ events[i].n = 0

C23_TerminalEventAndPurge ==
    [][\A t \in DOMAIN threads :
          (threads[t].pc /= "done" /\ threads'[t].pc = "done") =>
              /\ threads[t].pc = "cleanup"
              /\ threads[t].tid \notin DOMAIN received_chunks'
              /\ threads[t].tid \notin DOMAIN client_transfers']_vars

(* C24: a decrypt failure on the relay aborts only its transfer: in the    *)
(* step that fails, the sender is sent an error, the transfer is purged,   *)
(* the worker returns and the transfer lock is free for the chunks of      *)
(* other transfers.                                                        *)
C24_DecryptFailureAbortsOnlyTransfer ==
    [][failures' > failures =>
          /\ \E i \in 1..Len(out') : out'[i].event = "error" /\ out'[i].to = XferSender
          /\ "t1" \notin DOMAIN active_transfers'
          /\ \A w \in Workers : task'[w].op = "idle"
          /\ file_lock' = "free"]_vars

(* What a transfer has stored at the relay and at the receiving client. *)
RelayStored(transfers, tid) ==
    IF tid \in DOMAIN transfers
    THEN <<transfers[tid].received_chunks, transfers[tid].encrypted_chunks>>
    ELSE <<0, <<>>>>

ClientStored(chunks, tid) == IF tid \in DOMAIN chunks THEN chunks[tid] ELSE <<>>

(* C25: a chunk whose data does not decode is dropped: the arrival leaves  *)
(* the transfer's received count and stored chunks as they were, at the    *)
(* relay and at the receiving client.                                      *)
C25_MalformedChunkDropped ==
    [][(/\ Len(arrivals') = Len(arrivals) + 1
        /\ ~B64Valid(arrivals'[Len(arrivals')].chunk_data)) =>
           /\ RelayStored(active_transfers', "t1") = RelayStored(active_transfers, "t1")
           /\ ClientStored(received_chunks', "t1") = ClientStored(received_chunks, "t1")]_vars

(* C26: no server handler emits while it holds a lock on shared state. *)
C26_NoEmitUnderLock == emit_locks = {}

(* C27: while one transfer is being reassembled and decrypted, the transfer *)
(* lock is free, so a chunk of a different transfer can be ingested: no     *)
(* worker is inside _decrypt_and_save with the lock that chunk ingestion    *)
(* needs, and in particular not while another transfer has chunks to come.  *)
C27_DecryptOffIngestionPath ==
    \A w \in Workers :
        (task[w].op = "file_chunk" /\ task[w].pc = "decrypt") => file_lock = "free"

(* C28: at no time are two reconnection loops of the supervisor running. *)
C28_SingleReconnectionLoop == Cardinality(Running) <= 1

(* C29: a reconnection restarts the session-gated queue empty: every call *)
(* in the queue is encrypted under the key of the present connection, a    *)
(* call released by an ack was queued on the connection that ack belongs   *)
(* to, and a secure call goes out only on a connection whose ack has been  *)
(* seen.                                                                    *)
C29_QueueRestartsEmpty ==
    /\ \A i \in 1..Len(post_key_queue) : post_key_queue[i].key = session_aes_key
    /\ \A i \in 1..Len(released) : released[i].key = released[i].epoch
    /\ \A i \in 1..Len(wire) : wire[i].event = "message" => wire[i].acked

(* The calls of the queue as the ack handler releases them. *)
QueueReleased == [i \in 1..Len(post_key_queue) |-> Released(post_key_queue[i])]

(* C30: the ack handler emits every call of the session-gated queue once  *)
(* and in insertion order, and no call queued on a connection is still in  *)
(* the queue once the ack of that connection has been handled.             *)
C30_AckFlushesQueueInOrder ==
    /\ [][ackEpoch' /= ackEpoch =>
              /\ released' = released \o QueueReleased
              /\ post_key_queue' = <<>>]_vars
    /\ [](\A i \in 1..Len(post_key_queue) : post_key_queue[i].key /= ackEpoch)

(* The positions of the wire that carry file chunks. *)
ChunkEmits == {i \in 1..Len(wire) : wire[i].event = "public_file_chunk"}

(* C31: the chunks of the outgoing transfer reach the channel in increasing *)
(* index order, chunk 0 first.                                              *)
C31_ChunksEmittedInIndexOrder ==
    /\ \A i \in ChunkEmits : \A j \in ChunkEmits : i < j => wire[i].n < wire[j].n
    /\ \A i \in ChunkEmits : wire[i].n > 0 => \E j \in ChunkEmits : j < i /\ wire[j].n = 0

(* The total inferred at the receiver: the index + 1 of a chunk flagged as *)
(* last that was stored while no metadata had arrived; 0 when there is none. *)
InferredTotal ==
    LET lasts == {k \in 1..Len(arrivals) :
                     /\ arrivals[k].is_last_chunk
                     /\ B64Valid(arrivals[k].chunk_data)
                     /\ \A m \in 1..k : arrivals[m].total_chunks = 0}
    IN  IF lasts = {} THEN 0 ELSE arrivals[CHOOSE k \in lasts : TRUE].chunk_index + 1

NoMetadataArrived == \A m \in 1..Len(arrivals) : arrivals[m].total_chunks = 0

(* C32: at the receiver, once a chunk flagged as last has arrived for a     *)
(* transfer without metadata, the transfer is complete as soon as index + 1 *)
(* chunks are stored, whether the last of them to arrive is the flagged one *)
(* or a later chunk: a reassembly has then been started.                    *)
C32_InferredTotalUsedForCompletion ==
    (/\ leg.to = "receiver"
     /\ InferredTotal > 0
     /\ NoMetadataArrived
     /\ "t1" \in DOMAIN received_chunks
     /\ Len(received_chunks["t1"]) >= InferredTotal) => threads /= <<>>

(* The number of reconnected events among the signals. *)
ReconnectedEvents(sigs) == Len(SelectSeq(sigs, LAMBDA x : x.sig = "reconnected"))

(* The step is a connect made by the reconnection loop. *)
LoopConnects == rec = "connect" /\ rec' = "none" /\ link = "down" /\ link' = "up"

(* C33: a connect made by the reconnection loop resets the attempt counter *)
(* and emits exactly one reconnected event; any other connect resets the   *)
(* counter too, and emits no reconnected event when no attempt was made    *)
(* since the last connect.                                                 *)
C33_ReconnectedOncePerSuccess ==
    [][(link = "down" /\ link' = "up") =>
          /\ reconnect_attempts' = 0
          /\ LoopConnects =>
                ReconnectedEvents(signals') = ReconnectedEvents(signals) + 1
          /\ (~LoopConnects /\ reconnect_attempts = 0) =>
                ReconnectedEvents(signals') = ReconnectedEvents(signals)]_vars

(* C34: once the disconnect of a connection has been processed, neither the *)
(* presence map nor the session-key map holds an entry for it.              *)
C34_NoEntryAfterDisconnect ==
    \A sid \in Sids :
        conn[sid] = "gone" => sid \notin DOMAIN clients /\ sid \notin session_keys

(* The positions of the wire at which call n was emitted. *)
EmitsOf(n) == {i \in 1..Len(wire) : wire[i].n = n}

(* C35: every call that was queued is waiting in the queue or was emitted, *)
(* and none was emitted twice or is both waiting and emitted.              *)
C35_QueuedEmittedExactlyOnce ==
    \A n \in queued :
        LET waiting == \E i \in 1..Len(pending_events) : pending_events[i].n = n
        IN  /\ waiting \/ EmitsOf(n) /= {}
            /\ Cardinality(EmitsOf(n)) <= 1
            /\ (sock.pc = "idle" /\ EmitsOf(n) /= {}) => ~waiting

(* C36: on one connection, a call sent directly is not on the wire ahead of *)
(* a call that was made before it and went through the connect-time flush.  *)
C36_DirectSendDoesNotOvertake ==
    \A i \in 1..Len(wire) : \A j \in 1..Len(wire) :
        (/\ i < j
         /\ wire[i].epoch = wire[j].epoch
         /\ ~wire[i].flushed /\ wire[i].n > 0
         /\ wire[j].flushed /\ wire[j].n > 0) => wire[i].n < wire[j].n

(* The threads that are at their call of sio.connect. *)
ConnectsInFlight ==
    (IF connector THEN 1 ELSE 0) + Cardinality({t \in DOMAIN loops : loops[t] = "connect"})

(* C37: at most one connect call of the supervisor is in flight: the thread *)
(* of connect_async and a reconnection loop are never both at sio.connect.   *)
C37_SingleConnectInFlight == ConnectsInFlight <= 1

(* C38: with automatic reconnection enabled, the client is never left     *)
(* disconnected with attempts remaining, every disconnect handler finished *)
(* and no connect under way, while no reconnection loop is running.         *)
C38_NeverStrandedOffline ==
    (/\ link = "down"
     /\ should_reconnect /\ ~user_requested_disconnect
     /\ ~AttemptsExhausted(reconnect_attempts)
     /\ disc = <<>>
     /\ ~connector) => Running /= {}

(* C39: under concurrent public sends the broadcasts go out in the order *)
(* in which the messages were appended to the history: once no message   *)
(* handler is under way, the sequence broadcast is the sequence appended. *)
C39_BroadcastOrderIsHistoryOrder ==
    (\A w \in Workers : task[w].op /= "message") =>
        /\ broadcasts = accepted
        /\ public_history = LastN(accepted, MaxPublicHistory)

(* C40: once a user-requested disconnect has been performed, no step      *)
(* starts a reconnection loop, also when the client has connected anew     *)
(* through a call of the UI and that connection drops.                     *)
C40_NoLoopAfterUserDisconnect ==
    [][user_requested_disconnect => ~(rec = "none" /\ rec' = "loop")]_vars

UserDisconnectSignals ==
    {i \in 1..Len(signals) : signals[i].sig = "disconnected" /\ signals[i].state = "user"}

(* The user disconnected, a call connected the client anew, and that *)
(* connection dropped: no loop runs.                                 *)
C40_Witness ==
    /\ user_requested_disconnect
    /\ link = "down"
    /\ epoch > 1
    /\ Cardinality(UserDisconnectSignals) >= 2
    /\ rec = "none"

====
